---------------------------- MODULE Spec2Model ----------------------------
(***************************************************************************)
(* A model of the BogoKernel core: the Sv39 page-table engine and the two  *)
(* bump allocators (kernel/src/sv39.rs), the writable RAM filesystem       *)
(* (kernel/src/fs.rs), the ELF loader (kernel/src/elf.rs) and the trap     *)
(* dispatcher with its syscalls and FD table (kernel/src/trap.rs).         *)
(*                                                                         *)
(* Representation of machine words.  The checker's integers are 32-bit,    *)
(* so:                                                                     *)
(*   - user virtual addresses (all below 2^31) are plain integers;         *)
(*   - addresses handed to the page-table engine are page aligned and are  *)
(*     held as page numbers (address >> 12), because DRAM starts at 2^31;  *)
(*   - a PTE (ppn << 10) | flags is the record [ppn, flags];               *)
(*   - usize::MAX is written USIZE_MAX (its two's-complement reading -1).  *)
(***************************************************************************)
EXTENDS Integers, Sequences, FiniteSets, TLC

(***************************************************************************)
(* Bounds of the model (not program constants).                            *)
(***************************************************************************)
\* how many descriptors the user programs keep open at once
MaxOpen == 1
\* longest file the user programs build by writing (bytes)
MaxFileLen == 124

(***************************************************************************)
(* Small helpers.                                                          *)
(***************************************************************************)
Min(a, b) == IF a < b THEN a ELSE b
Max(a, b) == IF a > b THEN a ELSE b

\* bit b (a power of two) of the flag word f
HasBit(f, b) == (f \div b) % 2 = 1
\* f | b for a single bit b
SetBit(f, b) == IF HasBit(f, b) THEN f ELSE f + b

\* a function-valued update that also extends the domain
Put(f, k, v) == [x \in (DOMAIN f) \cup {k} |-> IF x = k THEN v ELSE f[x]]

\* the sequence <<x, ..., x>> of length n
Repeat(x, n) == [i \in 1..n |-> x]

\* let x be e in F(x), with e computed once
With(e, F(_)) == F(e)

(***************************************************************************)
(* sv39.rs: constants.                                                     *)
(***************************************************************************)
PAGE_SIZE == 4096
ENTRIES == 512

PTE_V == 1
PTE_R == 2
PTE_W == 4
PTE_X == 8
PTE_U == 16
PTE_G == 32
PTE_A == 64
PTE_D == 128

RWX == PTE_R + PTE_W + PTE_X + PTE_V + PTE_A + PTE_D
RW  == PTE_R + PTE_W + PTE_V + PTE_A + PTE_D
URX == PTE_R + PTE_X + PTE_V + PTE_A + PTE_U
URW == PTE_R + PTE_W + PTE_V + PTE_A + PTE_U + PTE_D

\* page counts of the Sv39 page sizes: SIZE_2M / SIZE_4K
PAGES_2M == 512

\* DRAM_BASE >> 12 and DRAM_SIZE >> 12
DRAM_BASE_PN == 524288
DRAM_PAGES == 32768
\* USER_VA_BASE and the boot-time user pages
USER_VA_BASE == 1073741824
USER_CODE_VA == USER_VA_BASE
USER_STACK_VA == USER_VA_BASE + 4096
\* USER_CODE_PA >> 12, USER_STACK_PA >> 12
USER_CODE_PN == DRAM_BASE_PN + 1024
USER_STACK_PN == DRAM_BASE_PN + 1025
\* UART0 >> 12
UART0_PN == 65536

\* capacity of PT_POOL
PT_POOL_LEN == 32
\* page number of PT_POOL[0]; the pool is a static of the kernel image
\* (linked at 0x8020_0000), so it lies inside DRAM and, being 32 pages,
\* is not 2 MiB aligned
PT_POOL_PN == 524864

\* initial USER_NEXT_PA >> 12  (0x8800_0000 - 0x0100_000 - 0x10000)
USER_PA_POOL_START_PN == 556784
\* lib.rs USER_PA_POOL_END >> 12  (0x8800_0000 - 0x10000)
USER_PA_POOL_END_PN == 557040

ZeroPte == [ppn |-> 0, flags |-> 0]

(***************************************************************************)
(* The memory the page-table engine works on, threaded through the         *)
(* operators below as a record:                                            *)
(*   pt   the nonzero words of the PT pool, keyed by <<pool page, index>>  *)
(*   cur  PT_CUR                                                           *)
(*   next USER_NEXT_PA >> 12                                               *)
(*   panic TRUE once alloc_pt_page's assertion has failed                  *)
(*   wild  TRUE once a PTE was written outside the PT pool                 *)
(***************************************************************************)
PteAt(m, pg, i) == IF <<pg, i>> \in DOMAIN m.pt THEN m.pt[<<pg, i>>] ELSE ZeroPte

\* *pte = word, for the PTE at index i of pool page pg
WritePte(m, pg, i, word) == [m EXCEPT !.pt = Put(m.pt, <<pg, i>>, word)]

\* sv39.rs ppn(): pa >> 12; physical addresses are held as page numbers
ppn(pa_pn) == pa_pn

\* a faulty variant of vpn_indices that returns [VPN2, VPN1, VPN0]
vpn_indices_reversed(va_pn) ==
    << (va_pn \div 262144) % 512, (va_pn \div 512) % 512, va_pn % 512 >>

\* sv39.rs vpn_indices() on the page number va >> 12: [VPN0, VPN1, VPN2]
vpn_indices(va_pn) ==
    << va_pn % 512, (va_pn \div 512) % 512, (va_pn \div 262144) % 512 >>

\* sv39.rs alloc_pt_page(): the next zeroed pool page, or the panic
alloc_pt_page(m) ==
    IF m.cur >= PT_POOL_LEN
    THEN [m EXCEPT !.panic = TRUE]
    ELSE [m EXCEPT !.cur = m.cur + 1]

\* sv39.rs alloc_user_page(): bump, no upper limit
alloc_user_page(m) == [m EXCEPT !.next = m.next + 1]

\* the pool page a PTE's PPN field points at, or -1 outside the pool
PoolPageOf(pte) ==
    IF pte.ppn >= PT_POOL_PN /\ pte.ppn < PT_POOL_PN + PT_POOL_LEN
    THEN pte.ppn - PT_POOL_PN ELSE -1

\* one level of the walk in map_4k / map_2m: returns <<m', table>> where
\* table is the pool page of the next level (-1: not a pool page)
WalkOrCreate(m, pg, i) ==
    LET next == PteAt(m, pg, i) IN
    IF ~HasBit(next.flags, PTE_V)
    THEN LET m1 == alloc_pt_page(m) IN
         IF m1.panic THEN << m1, -1 >>
         ELSE << WritePte(m1, pg, i, [ppn |-> ppn(PT_POOL_PN + m.cur), flags |-> PTE_V]),
                 m.cur >>
    ELSE << m, PoolPageOf(next) >>

\* sv39.rs map_4k(root, va, pa, flags); the root is pool page 0
map_4k(m, va_pn, pa_pn, flags) ==
    IF m.panic THEN m ELSE
    With(WalkOrCreate(m, 0, vpn_indices(va_pn)[3]), LAMBDA w2 :
        IF w2[1].panic THEN w2[1]
        ELSE IF w2[2] = -1 THEN [w2[1] EXCEPT !.wild = TRUE]
        ELSE With(WalkOrCreate(w2[1], w2[2], vpn_indices(va_pn)[2]), LAMBDA w1 :
             IF w1[1].panic THEN w1[1]
             ELSE IF w1[2] = -1 THEN [w1[1] EXCEPT !.wild = TRUE]
             ELSE WritePte(w1[1], w1[2], vpn_indices(va_pn)[1],
                           [ppn |-> ppn(pa_pn), flags |-> flags])))

\* sv39.rs map_2m(root, va, pa, flags): leaf at L1
map_2m(m, va_pn, pa_pn, flags) ==
    IF m.panic THEN m ELSE
    With(WalkOrCreate(m, 0, vpn_indices(va_pn)[3]), LAMBDA w2 :
        IF w2[1].panic THEN w2[1]
        ELSE IF w2[2] = -1 THEN [w2[1] EXCEPT !.wild = TRUE]
        ELSE WritePte(w2[1], w2[2], vpn_indices(va_pn)[2],
                      [ppn |-> ppn(pa_pn), flags |-> flags]))

RECURSIVE IdMap4kWhile(_, _, _, _, _)
\* the two 4 KiB loops of id_map_region; head = TRUE is the head loop,
\* which also stops at a 2 MiB boundary
IdMap4kWhile(m, va_pn, end_pn, flags_4k, head) ==
    IF ~m.panic /\ va_pn < end_pn /\ (~head \/ va_pn % PAGES_2M # 0)
    THEN IdMap4kWhile(map_4k(m, va_pn, va_pn, flags_4k), va_pn + 1, end_pn, flags_4k, head)
    ELSE << m, va_pn >>

RECURSIVE IdMap2mWhile(_, _, _, _)
IdMap2mWhile(m, va_pn, end_pn, flags_2m) ==
    IF ~m.panic /\ va_pn + PAGES_2M <= end_pn
    THEN IdMap2mWhile(map_2m(m, va_pn, va_pn, flags_2m), va_pn + PAGES_2M, end_pn, flags_2m)
    ELSE << m, va_pn >>

\* sv39.rs id_map_region(root, base, len, flags_2m, flags_4k), base and len
\* page aligned and given in pages
id_map_region(m, base_pn, len_pages, flags_2m, flags_4k) ==
    LET end_pn == base_pn + len_pages
        a == IdMap4kWhile(m, base_pn, end_pn, flags_4k, TRUE)
        b == IdMap2mWhile(a[1], a[2], end_pn, flags_2m)
        c == IdMap4kWhile(b[1], b[2], end_pn, flags_4k, FALSE)
    IN  c[1]

EmptyMem == [pt |-> << >>, cur |-> 0, next |-> USER_PA_POOL_START_PN,
             panic |-> FALSE, wild |-> FALSE]

\* sv39.rs enable_sv39(): the page tables the kernel boots with
enable_sv39 ==
    LET m0 == alloc_pt_page(EmptyMem)
        m1 == id_map_region(m0, DRAM_BASE_PN, DRAM_PAGES, RWX, RWX)
        m2 == map_4k(m1, UART0_PN, UART0_PN, RW)
        m3 == map_4k(m2, USER_CODE_VA \div PAGE_SIZE, USER_CODE_PN, URX)
    IN  map_4k(m3, USER_STACK_VA \div PAGE_SIZE, USER_STACK_PN, URW)


(***************************************************************************)
(* fs.rs: the read-only table FILES and the writable layer.                *)
(* A file's data is a sequence of bytes; an index is the Rust (0-based)    *)
(* index, so record idx of a list is files[idx + 1].                       *)
(***************************************************************************)
\* little-endian encoding of v in n bytes
RECURSIVE LE(_, _)
LE(v, n) == IF n = 0 THEN << >> ELSE << v % 256 >> \o LE(v \div 256, n - 1)

\* little-endian decoding of the n bytes of image that start at byte
\* offset off (0-based), most significant byte first so that no
\* intermediate value exceeds the result
RECURSIVE LEAt(_, _, _)
LEAt(image, off, n) ==
    IF n = 0 THEN 0 ELSE LEAt(image, off + 1, n - 1) * 256 + image[off + 1]

\* ELF constants used by elf.rs (goblin::elf::header, program_header)
EHDR_SIZE == 64
PHDR_SIZE == 56
ELFCLASS64 == 2
ELFDATA2LSB == 1
EM_RISCV == 243
PT_LOAD == 1

\* the bytes of an ELF64 file header
ElfHeader(magic0, class, data, machine, entry, phnum) ==
    << magic0, 69, 76, 70, class, data, 1 >> \o Repeat(0, 9)
    \o LE(2, 2) \o LE(machine, 2) \o LE(1, 4)
    \o LE(entry, 8) \o LE(EHDR_SIZE, 8) \o LE(0, 8)
    \o LE(0, 4) \o LE(EHDR_SIZE, 2) \o LE(PHDR_SIZE, 2) \o LE(phnum, 2)
    \o LE(0, 2) \o LE(0, 2) \o LE(0, 2)

\* the bytes of an ELF64 program header
ElfPhdr(type, flags, offset, vaddr, filesz, memsz) ==
    LE(type, 4) \o LE(flags, 4) \o LE(offset, 8) \o LE(vaddr, 8) \o LE(vaddr, 8)
    \o LE(filesz, 8) \o LE(memsz, 8) \o LE(PAGE_SIZE, 8)

\* entry points and segments of the two programs of the model
SHELL_ENTRY == USER_VA_BASE + 16 * PAGE_SIZE
PROG_ENTRY == USER_VA_BASE + 32 * PAGE_SIZE

\* shell.elf as embedded in the kernel: one R|X segment of 4 file bytes
\* and 8 bytes of memory at 0x4001_0000
ShellElf ==
    ElfHeader(127, ELFCLASS64, ELFDATA2LSB, EM_RISCV, SHELL_ENTRY, 1)
    \o ElfPhdr(PT_LOAD, 5, EHDR_SIZE + PHDR_SIZE, SHELL_ENTRY, 4, 8)
    \o << 115, 0, 0, 0 >>

\* a second program, as a user can write it into a file: one R|W|X
\* segment at 0x4002_0000 that runs into a second page
ProgElf ==
    ElfHeader(127, ELFCLASS64, ELFDATA2LSB, EM_RISCV, PROG_ENTRY, 1)
    \o ElfPhdr(PT_LOAD, 7, EHDR_SIZE + PHDR_SIZE, PROG_ENTRY, 4, 4100)
    \o << 115, 0, 0, 0 >>

\* fs.rs ETC_MOTD: "Welcome to BogoKernel.\n"
ETC_MOTD ==
    << 87, 101, 108, 99, 111, 109, 101, 32, 116, 111, 32, 66, 111, 103, 111,
       75, 101, 114, 110, 101, 108, 46, 10 >>

\* fs.rs FILES, cut down to one program and one text file
FILES ==
    << [name |-> "shell.elf", data |-> ShellElf],
       [name |-> "etc/motd", data |-> ETC_MOTD] >>

\* str::ends_with(".elf") for the names of the model
EndsWithElf(name) ==
    Len(name) >= 4 /\ SubSeq(name, Len(name) - 3, Len(name)) = ".elf"

\* fs.rs init_writable_fs(): copy FILES into the writable layer
init_writable_fs ==
    [i \in 1..Len(FILES) |->
        [name |-> FILES[i].name, data |-> FILES[i].data,
         mode |-> IF EndsWithElf(FILES[i].name) THEN 493 ELSE 420]]

\* position of the first record called name (0-based), -1 for None
Position(files, name) ==
    IF \E i \in 1..Len(files) : files[i].name = name
    THEN (CHOOSE i \in 1..Len(files) :
            files[i].name = name /\ \A j \in 1..(i - 1) : files[j].name # name) - 1
    ELSE -1

\* fs.rs lookup(): index into FILES, -1 for None
lookup(name) == Position(FILES, name)

\* fs.rs lookup_writable()
lookup_writable(files, name) == Position(files, name)

\* a faulty variant of create_file that keeps the mode of an existing file
create_file_keeping_mode(files, name) ==
    LET idx == Position(files, name) IN
    IF idx # -1
    THEN [files |-> [files EXCEPT ![idx + 1].data = << >>], idx |-> idx]
    ELSE [files |-> Append(files, [name |-> name, data |-> << >>, mode |-> 384]),
          idx |-> Len(files)]

\* fs.rs create_file(): [files, idx]
create_file(files, name) ==
    LET idx == Position(files, name) IN
    IF idx # -1
    THEN [files |-> [files EXCEPT ![idx + 1].data = << >>, ![idx + 1].mode = 384],
          idx |-> idx]
    ELSE [files |-> Append(files, [name |-> name, data |-> << >>, mode |-> 384]),
          idx |-> Len(files)]

\* a faulty variant of write_file that ends the file where the write ends
write_file_truncating(files, idx, offset, data) ==
    IF idx >= Len(files)
    THEN [ok |-> FALSE, files |-> files, n |-> 0]
    ELSE LET old == files[idx + 1].data
             end_pos == offset + Len(data)
             new == [i \in 1..end_pos |->
                        IF i > offset THEN data[i - offset]
                        ELSE IF i <= Len(old) THEN old[i] ELSE 0]
         IN  [ok |-> TRUE, files |-> [files EXCEPT ![idx + 1].data = new],
              n |-> Len(data)]

\* fs.rs write_file(): [ok, files, n]
write_file(files, idx, offset, data) ==
    IF idx >= Len(files)
    THEN [ok |-> FALSE, files |-> files, n |-> 0]
    ELSE LET old == files[idx + 1].data
             end_pos == offset + Len(data)
             resized == IF end_pos > Len(old)
                        THEN old \o Repeat(0, end_pos - Len(old)) ELSE old
             new == [i \in 1..Len(resized) |->
                        IF i > offset /\ i <= end_pos THEN data[i - offset]
                        ELSE resized[i]]
         IN  [ok |-> TRUE, files |-> [files EXCEPT ![idx + 1].data = new],
              n |-> Len(data)]

\* a faulty variant of read_file that reads from the start of the file
read_file_from_start(files, idx, offset, buflen) ==
    IF idx >= Len(files)
    THEN [ok |-> FALSE, n |-> 0, bytes |-> << >>]
    ELSE LET data == files[idx + 1].data IN
         IF offset >= Len(data)
         THEN [ok |-> TRUE, n |-> 0, bytes |-> << >>]
         ELSE LET to_read == Min(buflen, Len(data) - offset) IN
              [ok |-> TRUE, n |-> to_read, bytes |-> SubSeq(data, 1, to_read)]

\* fs.rs read_file() into a buffer of buflen bytes: [ok, n, bytes]
read_file(files, idx, offset, buflen) ==
    IF idx >= Len(files)
    THEN [ok |-> FALSE, n |-> 0, bytes |-> << >>]
    ELSE LET data == files[idx + 1].data IN
         IF offset >= Len(data)
         THEN [ok |-> TRUE, n |-> 0, bytes |-> << >>]
         ELSE LET to_read == Min(buflen, Len(data) - offset) IN
              [ok |-> TRUE, n |-> to_read,
               bytes |-> SubSeq(data, offset + 1, offset + to_read)]

\* fs.rs file_size(): the length, -1 for None
file_size(files, idx) == IF idx < Len(files) THEN Len(files[idx + 1].data) ELSE -1

\* a faulty variant of unlink_file that fills the gap with the last record
\* (Vec::swap_remove)
unlink_file_swapping(files, name) ==
    LET idx == Position(files, name) IN
    IF idx # -1
    THEN [ok |-> TRUE,
          files |-> IF idx + 1 = Len(files) THEN SubSeq(files, 1, idx)
                    ELSE [SubSeq(files, 1, Len(files) - 1) EXCEPT ![idx + 1] = files[Len(files)]]]
    ELSE [ok |-> FALSE, files |-> files]

\* fs.rs unlink_file(): [ok, files]
unlink_file(files, name) ==
    LET idx == Position(files, name) IN
    IF idx # -1
    THEN [ok |-> TRUE,
          files |-> SubSeq(files, 1, idx) \o SubSeq(files, idx + 2, Len(files))]
    ELSE [ok |-> FALSE, files |-> files]

\* fs.rs chmod_file(): [ok, files]
chmod_file(files, name, mode) ==
    LET idx == Position(files, name) IN
    IF idx # -1
    THEN [ok |-> TRUE, files |-> [files EXCEPT ![idx + 1].mode = mode]]
    ELSE [ok |-> FALSE, files |-> files]

\* fs.rs stat_file(): [ok, size, mode, is_writable]
stat_file(files, name) ==
    LET idx == Position(files, name)
        ro == lookup(name)
    IN  IF idx # -1
        THEN [ok |-> TRUE, size |-> Len(files[idx + 1].data),
              mode |-> files[idx + 1].mode, is_writable |-> TRUE]
        ELSE IF ro # -1
        THEN [ok |-> TRUE, size |-> Len(FILES[ro + 1].data), mode |-> 292,
              is_writable |-> FALSE]
        ELSE [ok |-> FALSE, size |-> 0, mode |-> 0, is_writable |-> FALSE]

\* fs.rs get_file_data(): [ok, data], a copy of the bytes
get_file_data(files, name) ==
    LET idx == Position(files, name) IN
    IF idx # -1 THEN [ok |-> TRUE, data |-> files[idx + 1].data]
    ELSE [ok |-> FALSE, data |-> << >>]


(***************************************************************************)
(* Address translation as the hardware walks the tables (Sv39).            *)
(***************************************************************************)
IsLeaf(pte) ==
    HasBit(pte.flags, PTE_R) \/ HasBit(pte.flags, PTE_W) \/ HasBit(pte.flags, PTE_X)

\* the flags of the leaf that maps page va_pn, 0 when the walk finds none
Translate(m, va_pn) ==
    LET idx == vpn_indices(va_pn)
        p2 == PteAt(m, 0, idx[3])
    IN  IF ~HasBit(p2.flags, PTE_V) THEN 0
        ELSE IF IsLeaf(p2) THEN p2.flags
        ELSE IF PoolPageOf(p2) = -1 THEN 0
        ELSE LET p1 == PteAt(m, PoolPageOf(p2), idx[2]) IN
             IF ~HasBit(p1.flags, PTE_V) THEN 0
             ELSE IF IsLeaf(p1) THEN p1.flags
             ELSE IF PoolPageOf(p1) = -1 THEN 0
             ELSE LET p0 == PteAt(m, PoolPageOf(p1), idx[1]) IN
                  IF HasBit(p0.flags, PTE_V) /\ IsLeaf(p0) THEN p0.flags ELSE 0

\* the physical page number of the 4 KiB leaf that maps page va_pn, -1 when
\* the walk finds no 4 KiB leaf
FrameOf(m, va_pn) ==
    LET idx == vpn_indices(va_pn)
        p2 == PteAt(m, 0, idx[3])
    IN  IF ~HasBit(p2.flags, PTE_V) \/ IsLeaf(p2) \/ PoolPageOf(p2) = -1 THEN -1
        ELSE LET p1 == PteAt(m, PoolPageOf(p2), idx[2]) IN
             IF ~HasBit(p1.flags, PTE_V) \/ IsLeaf(p1) \/ PoolPageOf(p1) = -1 THEN -1
             ELSE LET p0 == PteAt(m, PoolPageOf(p1), idx[1]) IN
                  IF HasBit(p0.flags, PTE_V) /\ IsLeaf(p0) THEN p0.ppn ELSE -1

\* the pages that the bytes [va, va + len) lie in
PagesOf(va, len) ==
    IF len = 0 THEN {} ELSE (va \div PAGE_SIZE) .. ((va + len - 1) \div PAGE_SIZE)

\* a supervisor load (bit = PTE_R) or store (bit = PTE_W) of [va, va + len)
\* with SUM set completes without a page fault
CanAccess(m, va, len, bit) ==
    \A pg \in PagesOf(va, len) : HasBit(Translate(m, pg), bit)

\* user mode can fetch the instruction at pc
CanExecute(m, pc) ==
    LET f == Translate(m, pc \div PAGE_SIZE) IN
    HasBit(f, PTE_X) /\ HasBit(f, PTE_U)

(***************************************************************************)
(* elf.rs: the loader.                                                     *)
(***************************************************************************)
\* elf.rs with_sum(): the (SUM, STIE) pairs the CSRs pass through when the
\* scope is entered with the timer enable at stie
elf_with_sum(stie) == { [sum |-> TRUE, stie |-> stie], [sum |-> FALSE, stie |-> stie] }

\* a faulty variant of pte_flags_from_pf that leaves D out of writable pages
pte_flags_without_dirty(pf) ==
    LET f0 == PTE_V + PTE_U + PTE_A
        f1 == IF HasBit(pf, 4) THEN SetBit(f0, PTE_R) ELSE f0
        f2 == IF HasBit(pf, 2) THEN SetBit(f1, PTE_W) ELSE f1
    IN  IF HasBit(pf, 1) THEN SetBit(f2, PTE_X) ELSE f2

\* elf.rs pte_flags_from_pf()
pte_flags_from_pf(pf) ==
    LET f0 == PTE_V + PTE_U + PTE_A
        f1 == IF HasBit(pf, 4) THEN SetBit(f0, PTE_R) ELSE f0
        f2 == IF HasBit(pf, 2) THEN SetBit(SetBit(f1, PTE_W), PTE_D) ELSE f1
    IN  IF HasBit(pf, 1) THEN SetBit(f2, PTE_X) ELSE f2

\* elf.rs map_user_page(): a fresh frame mapped at page va_pn
map_user_page(m, va_pn, flags) ==
    map_4k(alloc_user_page(m), va_pn, m.next, flags)

\* program header i (0-based) of a 64-bit little-endian image
PhdrAt(image, phoff, i) ==
    LET b == phoff + i * PHDR_SIZE IN
    [p_type |-> LEAt(image, b, 4), p_flags |-> LEAt(image, b + 4, 4),
     p_offset |-> LEAt(image, b + 8, 8), p_vaddr |-> LEAt(image, b + 16, 8),
     p_filesz |-> LEAt(image, b + 32, 8), p_memsz |-> LEAt(image, b + 40, 8)]

\* goblin's Elf::parse as load_user_elf uses it: the header fields and the
\* program headers, or an error for a bad magic, an unknown class or byte
\* order, or a program-header table outside the image
ElfParse(image) ==
    LET bad == [ok |-> FALSE, class |-> 0, data |-> 0, machine |-> 0, entry |-> 0,
                phdrs |-> << >>]
    IN  IF SubSeq(image, 1, 4) # << 127, 69, 76, 70 >> THEN bad
        ELSE IF image[5] \notin {1, 2} \/ image[6] \notin {1, 2} THEN bad
        ELSE IF image[5] # ELFCLASS64 \/ image[6] # ELFDATA2LSB
        THEN [bad EXCEPT !.ok = TRUE, !.class = image[5], !.data = image[6]]
        ELSE LET phoff == LEAt(image, 32, 8)
                 phnum == LEAt(image, 56, 2)
             IN  IF phoff + phnum * PHDR_SIZE > Len(image) THEN bad
                 ELSE [ok |-> TRUE, class |-> image[5], data |-> image[6],
                       machine |-> LEAt(image, 18, 2), entry |-> LEAt(image, 24, 8),
                       phdrs |-> [i \in 1..phnum |-> PhdrAt(image, phoff, i - 1)]]

RECURSIVE MapSegmentPages(_, _, _, _)
\* the while loop of load_user_elf over the pages of one segment
MapSegmentPages(m, cur_pn, end_pn, flags) ==
    IF ~m.panic /\ cur_pn < end_pn
    THEN MapSegmentPages(map_user_page(m, cur_pn, flags), cur_pn + 1, end_pn, flags)
    ELSE m

RECURSIVE LoadSegments(_, _, _, _, _)
\* the for loop of load_user_elf over the program headers, from header i:
\* [ok, m, max_brk]
LoadSegments(m, image, phdrs, i, max_brk) ==
    IF m.panic \/ i > Len(phdrs) THEN [ok |-> TRUE, m |-> m, max_brk |-> max_brk]
    ELSE LET ph == phdrs[i] IN
         IF ph.p_type # PT_LOAD THEN LoadSegments(m, image, phdrs, i + 1, max_brk)
         ELSE IF ph.p_offset + ph.p_filesz > Len(image)
         THEN [ok |-> FALSE, m |-> m, max_brk |-> max_brk]
         ELSE IF ph.p_memsz = 0 THEN LoadSegments(m, image, phdrs, i + 1, max_brk)
         ELSE LET seg_end == ph.p_vaddr + ph.p_memsz
                  va0_pn == ph.p_vaddr \div PAGE_SIZE
                  vaend_pn == (seg_end + PAGE_SIZE - 1) \div PAGE_SIZE
                  flags == pte_flags_from_pf(ph.p_flags)
              IN  LoadSegments(MapSegmentPages(m, va0_pn, vaend_pn, flags),
                               image, phdrs, i + 1, Max(max_brk, seg_end))

\* elf.rs memcpy_pa(): len bytes of the image from byte offset src go to
\* offset off of the frame pn
memcpy_pa(pn, off, src, len) == [pn |-> pn, off |-> off, len |-> len, src |-> src]

\* elf.rs memzero_pa(): len zero bytes at offset off of the frame pn
memzero_pa(pn, off, len) == [pn |-> pn, off |-> off, len |-> len, src |-> -1]

RECURSIVE PageWrites(_, _, _, _)
\* what the while loop of load_user_elf writes into the frames of segment
\* ph, from page cur_pn on, whose frame is pa_pn, with copied bytes of the
\* file part done: the calls of memcpy_pa and memzero_pa in order
PageWrites(ph, cur_pn, pa_pn, copied) ==
    LET va0_pn == ph.p_vaddr \div PAGE_SIZE
        head == ph.p_vaddr - va0_pn * PAGE_SIZE
        seg_end == ph.p_vaddr + ph.p_memsz
        vaend_pn == (seg_end + PAGE_SIZE - 1) \div PAGE_SIZE
        page_off == IF cur_pn = va0_pn THEN head ELSE 0
        page_space == PAGE_SIZE - page_off
        file_left == Max(ph.p_filesz - copied, 0)
        file_chunk == Min(file_left, page_space)
        page_end == (cur_pn + 1) * PAGE_SIZE
        mem_covered == IF page_end > seg_end THEN Max(seg_end - cur_pn * PAGE_SIZE, 0)
                       ELSE PAGE_SIZE
    IN  IF cur_pn >= vaend_pn THEN << >>
        ELSE (IF file_chunk > 0
              THEN << memcpy_pa(pa_pn, page_off, ph.p_offset + copied, file_chunk) >>
              ELSE << >>)
             \o (IF mem_covered > page_off + file_chunk
                 THEN << memzero_pa(pa_pn, page_off + file_chunk,
                                    mem_covered - (page_off + file_chunk)) >>
                 ELSE << >>)
             \o PageWrites(ph, cur_pn + 1, pa_pn + 1, copied + file_chunk)

RECURSIVE SegmentWrites(_, _, _, _)
\* what the for loop of load_user_elf writes into the frames, from header i
\* on, in order; map_user_page hands out the frames from m.next on
SegmentWrites(m, image, phdrs, i) ==
    IF m.panic \/ i > Len(phdrs) THEN << >>
    ELSE LET ph == phdrs[i] IN
         IF ph.p_type # PT_LOAD THEN SegmentWrites(m, image, phdrs, i + 1)
         ELSE IF ph.p_offset + ph.p_filesz > Len(image) THEN << >>
         ELSE IF ph.p_memsz = 0 THEN SegmentWrites(m, image, phdrs, i + 1)
         ELSE PageWrites(ph, ph.p_vaddr \div PAGE_SIZE, m.next, 0)
              \o SegmentWrites(MapSegmentPages(m, ph.p_vaddr \div PAGE_SIZE,
                                   (ph.p_vaddr + ph.p_memsz + PAGE_SIZE - 1) \div PAGE_SIZE,
                                   pte_flags_from_pf(ph.p_flags)),
                               image, phdrs, i + 1)

\* elf.rs write_user_bytes(): the bytes (or the bytes of the string) data
\* go to user memory at va
write_user_bytes(va, kind, data) ==
    [va |-> va, len |-> Len(data), kind |-> kind, data |-> data]

\* elf.rs write_user_usize(): the 8 bytes of val, least significant first
write_user_usize(va, val) == write_user_bytes(va, "bytes", LE(val, 8))

RECURSIVE StringWrites(_, _, _)
\* the writes of one of the string loops of setup_user_stack, from string
\* i on: each string at its pointer, then its NUL
StringWrites(strs, ptrs, i) ==
    IF i > Len(ptrs) THEN << >>
    ELSE << write_user_bytes(ptrs[i], "str", strs[i]),
            write_user_bytes(ptrs[i] + Len(strs[i]), "bytes", << 0 >>) >>
         \o StringWrites(strs, ptrs, i + 1)

\* a faulty variant of VectorWrites that stores the pointers from the first
\* down to the last, so that the lowest address holds the last string
VectorWritesForward(sp, ptrs) ==
    << write_user_usize(sp - 8, 0) >>
    \o [j \in 1..Len(ptrs) |-> write_user_usize(sp - 8 - 8 * j, ptrs[j])]

\* the writes of one of the vector loops of setup_user_stack below sp: the
\* NULL, then the pointers from the last down to the first
VectorWrites(sp, ptrs) ==
    << write_user_usize(sp - 8, 0) >>
    \o [j \in 1..Len(ptrs) |-> write_user_usize(sp - 8 - 8 * j, ptrs[Len(ptrs) + 1 - j])]

\* capacity of the heapless::Vec of string pointers in setup_user_stack
PTR_VEC_CAP == 32

RECURSIVE PushStrings(_, _, _, _)
\* one of the two string loops of setup_user_stack, from string i:
\* [ok, sp, ptrs]; the push of a 33rd pointer fails
PushStrings(strs, i, sp, ptrs) ==
    IF i > Len(strs) THEN [ok |-> TRUE, sp |-> sp, ptrs |-> ptrs]
    ELSE LET sp1 == sp - (Len(strs[i]) + 1) IN
         IF Len(ptrs) >= PTR_VEC_CAP THEN [ok |-> FALSE, sp |-> sp1, ptrs |-> ptrs]
         ELSE PushStrings(strs, i + 1, sp1, Append(ptrs, sp1))

RECURSIVE MapStackPages(_, _, _)
MapStackPages(m, va_pn, n) ==
    IF ~m.panic /\ n > 0
    THEN MapStackPages(map_user_page(m, va_pn, URW), va_pn + 1, n - 1)
    ELSE m

\* x & !15
AlignDown16(x) == x - (x % 16)

\* elf.rs setup_user_stack(): [ok, m, sp, envp_va, argv_va, argc, writes];
\* writes are its stores into user memory, in order
setup_user_stack(m, user_stack_top_va, user_stack_bytes, argv, envp) ==
    With((user_stack_bytes + 4095) \div 4096, LAMBDA stack_pages :
    With(MapStackPages(m, (user_stack_top_va - stack_pages * 4096) \div PAGE_SIZE,
                       stack_pages), LAMBDA m1 :
    With(PushStrings(envp, 1, user_stack_top_va - 16, << >>), LAMBDA e :
    With(PushStrings(argv, 1, e.sp, << >>), LAMBDA a :
    With(AlignDown16(a.sp) - 8 - 8 * Len(e.ptrs), LAMBDA envp_va :
    With(envp_va - 8 - 8 * Len(a.ptrs), LAMBDA argv_va :
        IF m1.panic \/ ~e.ok \/ ~a.ok
        THEN [ok |-> FALSE, m |-> m1, sp |-> 0, envp_va |-> 0, argv_va |-> 0,
              argc |-> 0, writes |-> << >>]
        ELSE [ok |-> TRUE, m |-> m1, sp |-> AlignDown16(argv_va - 8),
              envp_va |-> envp_va, argv_va |-> argv_va, argc |-> Len(a.ptrs),
              writes |-> StringWrites(envp, e.ptrs, 1) \o StringWrites(argv, a.ptrs, 1)
                         \o VectorWrites(AlignDown16(a.sp), e.ptrs)
                         \o VectorWrites(envp_va, a.ptrs)
                         \o << write_user_usize(argv_va - 8, Len(a.ptrs)) >>]))))))

NoImg == [entry_va |-> 0, user_sp |-> 0, argc |-> 0, argv_va |-> 0, envp_va |-> 0,
          brk |-> 0]

\* Err(e) of load_user_elf with the memory as it is then
LoadFail(e, mm) ==
    [err |-> e, m |-> mm, img |-> NoImg, csr |-> {}, frames |-> << >>, stack |-> << >>]

\* elf.rs load_user_elf(): [err, m, img, csr, frames, stack]; err = "Ok" on
\* success, m is the memory as the loader leaves it (also on an error), csr
\* the CSR states of its with_sum scopes when it is entered with the timer
\* enable at stie, frames what a successful load wrote into the frames of
\* the segments and stack what it wrote into the user stack
load_user_elf(m, stie, image, user_stack_top_va, user_stack_bytes, argv, envp) ==
    IF Len(image) < EHDR_SIZE THEN LoadFail("Short", m)
    ELSE With(ElfParse(image), LAMBDA elf :
        IF ~elf.ok THEN LoadFail("BadMagic", m)
        ELSE IF elf.class # ELFCLASS64 \/ elf.data # ELFDATA2LSB
        THEN LoadFail("Not64LE", m)
        ELSE IF elf.machine # EM_RISCV THEN LoadFail("NotRiscv", m)
        ELSE IF m.cur = 0 THEN LoadFail("SatpNotSet", m)
        ELSE With(LoadSegments(m, image, elf.phdrs, 1, 0), LAMBDA segs :
             IF segs.m.panic THEN LoadFail("panic", segs.m)
             ELSE IF ~segs.ok THEN LoadFail("PhOutOfBounds", segs.m)
             ELSE With(setup_user_stack(segs.m, user_stack_top_va, user_stack_bytes,
                                        argv, envp), LAMBDA st :
                  IF st.m.panic THEN LoadFail("panic", st.m)
                  ELSE IF ~st.ok
                  THEN [err |-> "SegmentOverflow", m |-> st.m, img |-> NoImg,
                        csr |-> elf_with_sum(stie), frames |-> << >>, stack |-> << >>]
                  ELSE [err |-> "Ok", m |-> st.m,
                        img |-> [entry_va |-> elf.entry, user_sp |-> st.sp,
                                 argc |-> st.argc, argv_va |-> st.argv_va,
                                 envp_va |-> st.envp_va, brk |-> segs.max_brk],
                        csr |-> elf_with_sum(stie),
                        frames |-> SegmentWrites(m, image, elf.phdrs, 1),
                        stack |-> st.writes])))

\* the stack region of every user program (main.rs and load_program)
USER_STACK_TOP_VA == 1073774592
USER_STACK_BYTES == 16384

\* main.rs rust_start(): the memory and image after the boot-time load of
\* shell.elf with argv = ["shell"], envp = ["PATH=/"]; trap::init() has set
\* sie.STIE before
BootLoad ==
    load_user_elf(enable_sv39, TRUE, get_file_data(init_writable_fs, "shell.elf").data,
                  USER_STACK_TOP_VA, USER_STACK_BYTES, << "shell" >>, << "PATH=/" >>)


(***************************************************************************)
(* trap.rs: the FD table.                                                  *)
(***************************************************************************)
USIZE_MAX == -1
MAX_FD == 32

\* FdEntry::EMPTY
EMPTY == [in_use |-> FALSE, file_type |-> [kind |-> "ReadOnly", idx |-> 0],
          offset |-> 0, writable |-> FALSE]

ReadOnly(idx) == [kind |-> "ReadOnly", idx |-> idx]
Writable(idx) == [kind |-> "Writable", idx |-> idx]

\* a faulty variant of fd_alloc that takes the highest free slot
fd_alloc_highest(tbl, file_type, writable) ==
    IF \E fd \in 3..(MAX_FD - 1) : ~tbl[fd].in_use
    THEN LET fd == CHOOSE x \in 3..(MAX_FD - 1) :
                       ~tbl[x].in_use /\ \A y \in (x + 1)..(MAX_FD - 1) : tbl[y].in_use
         IN  [fd |-> fd,
              tbl |-> [tbl EXCEPT ![fd] = [in_use |-> TRUE, file_type |-> file_type,
                                           offset |-> 0, writable |-> writable]]]
    ELSE [fd |-> -1, tbl |-> tbl]

\* trap.rs fd_alloc(): [fd, tbl], fd = -1 for None
fd_alloc(tbl, file_type, writable) ==
    IF \E fd \in 3..(MAX_FD - 1) : ~tbl[fd].in_use
    THEN LET fd == CHOOSE x \in 3..(MAX_FD - 1) :
                       ~tbl[x].in_use /\ \A y \in 3..(x - 1) : tbl[y].in_use
         IN  [fd |-> fd,
              tbl |-> [tbl EXCEPT ![fd] = [in_use |-> TRUE, file_type |-> file_type,
                                           offset |-> 0, writable |-> writable]]]
    ELSE [fd |-> -1, tbl |-> tbl]

\* trap.rs fd_get(): [ok, e]
fd_get(tbl, fd) ==
    IF fd >= 0 /\ fd < MAX_FD /\ tbl[fd].in_use
    THEN [ok |-> TRUE, e |-> tbl[fd]] ELSE [ok |-> FALSE, e |-> EMPTY]

\* a faulty variant of fd_advance that moves the offset one byte too far
fd_advance_one_more(tbl, fd, inc) ==
    IF fd >= 0 /\ fd < MAX_FD /\ tbl[fd].in_use
    THEN [tbl EXCEPT ![fd].offset = tbl[fd].offset + inc + 1] ELSE tbl

\* trap.rs fd_advance()
fd_advance(tbl, fd, inc) ==
    IF fd >= 0 /\ fd < MAX_FD /\ tbl[fd].in_use
    THEN [tbl EXCEPT ![fd].offset = tbl[fd].offset + inc] ELSE tbl

\* trap.rs fd_seek()
fd_seek(tbl, fd, offset) ==
    IF fd >= 0 /\ fd < MAX_FD /\ tbl[fd].in_use
    THEN [tbl EXCEPT ![fd].offset = offset] ELSE tbl

\* trap.rs fd_close(): [ok, tbl]
fd_close(tbl, fd) ==
    IF fd >= 0 /\ fd < MAX_FD /\ tbl[fd].in_use
    THEN [ok |-> TRUE, tbl |-> [tbl EXCEPT ![fd] = EMPTY]]
    ELSE [ok |-> FALSE, tbl |-> tbl]

(***************************************************************************)
(* trap.rs: user-memory helpers.  What a handler does to user memory is    *)
(* collected in a record u = [csr, touch, fault, stie]: csr is the set of  *)
(* (SUM, STIE) pairs the two CSRs pass through, touch the accesses made at *)
(* addresses the user supplied, fault says that an access page-faulted     *)
(* (the scope is then cut short) and stie is sie.STIE as it is now.        *)
(***************************************************************************)
\* one access of the kernel to user memory: len bytes from va, a load
\* (bit = PTE_R) or a store (bit = PTE_W); ok: no page fault
Access(m, va, len, bit) ==
    [va |-> va, len |-> len, ok |-> CanAccess(m, va, len, bit)]

\* no user memory touched yet
NoUser(stie) == [csr |-> {}, touch |-> {}, fault |-> FALSE, stie |-> stie]

\* trap.rs with_sum() around the accesses accs
with_sum(u, accs) ==
    LET ok == \A a \in accs : a.ok IN
    [csr |-> u.csr \cup { [sum |-> TRUE, stie |-> u.stie] }
               \cup (IF ok THEN { [sum |-> FALSE, stie |-> u.stie] } ELSE {}),
     touch |-> u.touch \cup accs, fault |-> ~ok, stie |-> u.stie]

\* trap.rs with_sum_no_timer() around the accesses accs
with_sum_no_timer(u, accs) ==
    LET ok == \A a \in accs : a.ok IN
    [csr |-> u.csr \cup { [sum |-> FALSE, stie |-> FALSE], [sum |-> TRUE, stie |-> FALSE] }
               \cup (IF ok THEN { [sum |-> FALSE, stie |-> TRUE] } ELSE {}),
     touch |-> u.touch \cup accs, fault |-> ~ok, stie |-> ok]

\* (va + 4096) & !4095
PageEnd(va) == ((va \div PAGE_SIZE) + 1) * PAGE_SIZE

\* trap.rs cap_to_page()
cap_to_page(va, len) == Min(len, PageEnd(va) - va)

\* the bytes a loop reads that copies the NUL-terminated string str from va
\* and gives up after limit bytes
CstrBytes(str, limit) == IF Len(str) < limit THEN Len(str) + 1 ELSE limit

\* trap.rs read_user_cstr_in_page() when user memory holds str and a NUL at
\* va; the buffer out has 256 bytes: [ok, u]
read_user_cstr_in_page(m, u, va, max, str) ==
    IF va = 0 THEN [ok |-> FALSE, u |-> u]
    ELSE LET limit == Min(PageEnd(va) - va, Min(max, 256))
             u1 == with_sum_no_timer(u, {Access(m, va, CstrBytes(str, limit), PTE_R)})
         IN  [ok |-> ~u1.fault /\ Len(str) < limit, u |-> u1]

\* trap.rs copy_to_user() of src_len bytes: [n, u]
copy_to_user(m, u, dst_va, src_len) ==
    IF dst_va = 0 \/ src_len = 0 THEN [n |-> 0, u |-> u]
    ELSE LET n == cap_to_page(dst_va, src_len) IN
         [n |-> n, u |-> with_sum_no_timer(u, {Access(m, dst_va, n, PTE_W)})]

(***************************************************************************)
(* trap.rs: the syscall handlers.  A handler is an operator from the       *)
(* kernel state k = [files, fdt, fd_path, mem, brk, stie, ticks], the      *)
(* trap frame                                                              *)
(* f saved at the ecall and what user memory holds, to a result            *)
(*   [k, tf, outcome, err, img, csr, touch, stack]                         *)
(* where outcome is "ret" (trap return with the frame tf), "fault" (a page *)
(* fault in the kernel: the fatal branch of rust_trap), "panic" or "off",  *)
(* err says how load_program ended ("" when it was not called), img is the *)
(* loader's result and stack what the loader stored in the new user stack. *)
(* fd_path remembers the path each descriptor was opened with; no handler  *)
(* reads it.                                                               *)
(***************************************************************************)
\* uapi nr
NR_WRITE == 1
NR_EXIT == 2
NR_WRITE_CSTR == 3
NR_OPEN == 4
NR_READ == 5
NR_WRITE_FD == 6
NR_CLOSE == 7
NR_LSEEK == 8
NR_BRK == 9
NR_GETTIME == 10
NR_POWEROFF == 11
NR_EXEC == 12
NR_EXECV == 13
NR_CREAT == 14
NR_UNLINK == 15
NR_STAT == 16
NR_CHMOD == 17
NR_READDIR == 18
NR_GET_FB_INFO == 19
NR_FB_FLUSH == 20

Result(k, f, outcome, err, img, u) ==
    [k |-> [k EXCEPT !.stie = u.stie], tf |-> f, outcome |-> outcome, err |-> err,
     img |-> img, csr |-> u.csr, touch |-> u.touch, stack |-> << >>]

\* a faulty variant of Return that leaves sepc at the ecall; C7 must tell
\* it from Return
ReturnNoAdvance(k, f, val, u) ==
    Result(k, [f EXCEPT !.a0 = val], "ret", "", NoImg, u)

\* tf.a0 = val; tf.sepc = tf.sepc.wrapping_add(4); return
Return(k, f, val, u) ==
    Result(k, [f EXCEPT !.a0 = val, !.sepc = f.sepc + 4], "ret", "", NoImg, u)

\* an access to user memory page-faulted in the kernel: rust_trap is entered
\* again and takes its last branch, which never returns
Fault(k, f, u) == Result(k, f, "fault", "", NoImg, u)

\* trap.rs sys_write_ptrlen(): a1 bytes from a0 to the UART
sys_write_ptrlen(k, f) ==
    LET u == with_sum(NoUser(k.stie), {Access(k.mem, f.a0, f.a1, PTE_R)}) IN
    IF u.fault THEN Fault(k, f, u) ELSE Return(k, f, f.a1, u)

\* trap.rs sys_write_cstr(); str is the string user memory holds at a0
sys_write_cstr(k, f, str) ==
    LET limit == PageEnd(f.a0) - f.a0
        u == with_sum(NoUser(k.stie),
                      {Access(k.mem, f.a0, CstrBytes(str, limit), PTE_R)})
    IN  IF u.fault THEN Fault(k, f, u) ELSE Return(k, f, Min(Len(str), limit), u)


\* a faulty variant of sys_open whose descriptor is writable when the file
\* is in the writable layer
sys_open_writable(k, f, path) ==
    LET p == read_user_cstr_in_page(k.mem, NoUser(k.stie), f.a0, 255, path)
        idx == lookup_writable(k.files, path)
        ro == lookup(path)
        a == fd_alloc(k.fdt, IF idx # -1 THEN Writable(idx) ELSE ReadOnly(ro), idx # -1)
    IN  IF p.u.fault THEN Fault(k, f, p.u)
        ELSE IF ~p.ok THEN Return(k, f, USIZE_MAX, p.u)
        ELSE IF idx = -1 /\ ro = -1 THEN Return(k, f, USIZE_MAX, p.u)
        ELSE IF a.fd = -1 THEN Return(k, f, USIZE_MAX, p.u)
        ELSE Return([k EXCEPT !.fdt = a.tbl, !.fd_path[a.fd] = path], f, a.fd, p.u)

\* trap.rs sys_open(); path is the string user memory holds at a0
sys_open(k, f, path) ==
    LET p == read_user_cstr_in_page(k.mem, NoUser(k.stie), f.a0, 255, path)
        idx == lookup_writable(k.files, path)
        ro == lookup(path)
        a == fd_alloc(k.fdt, IF idx # -1 THEN Writable(idx) ELSE ReadOnly(ro), FALSE)
    IN  IF p.u.fault THEN Fault(k, f, p.u)
        ELSE IF ~p.ok THEN Return(k, f, USIZE_MAX, p.u)
        ELSE IF idx = -1 /\ ro = -1 THEN Return(k, f, USIZE_MAX, p.u)
        ELSE IF a.fd = -1 THEN Return(k, f, USIZE_MAX, p.u)
        ELSE Return([k EXCEPT !.fdt = a.tbl, !.fd_path[a.fd] = path], f, a.fd, p.u)

\* trap.rs sys_creat()
sys_creat(k, f, path) ==
    LET p == read_user_cstr_in_page(k.mem, NoUser(k.stie), f.a0, 255, path)
        c == create_file(k.files, path)
        a == fd_alloc(k.fdt, Writable(c.idx), TRUE)
    IN  IF p.u.fault THEN Fault(k, f, p.u)
        ELSE IF ~p.ok THEN Return(k, f, USIZE_MAX, p.u)
        ELSE IF a.fd = -1 THEN Return([k EXCEPT !.files = c.files], f, USIZE_MAX, p.u)
        ELSE Return([k EXCEPT !.files = c.files, !.fdt = a.tbl, !.fd_path[a.fd] = path],
                    f, a.fd, p.u)

\* trap.rs sys_close()
sys_close(k, f) ==
    LET c == fd_close(k.fdt, f.a0) IN
    IF c.ok
    THEN Return([k EXCEPT !.fdt = c.tbl, !.fd_path[f.a0] = ""], f, 0, NoUser(k.stie))
    ELSE Return(k, f, USIZE_MAX, NoUser(k.stie))

\* trap.rs sys_unlink()
sys_unlink(k, f, path) ==
    LET p == read_user_cstr_in_page(k.mem, NoUser(k.stie), f.a0, 255, path)
        r == unlink_file(k.files, path)
    IN  IF p.u.fault THEN Fault(k, f, p.u)
        ELSE IF ~p.ok THEN Return(k, f, USIZE_MAX, p.u)
        ELSE IF r.ok THEN Return([k EXCEPT !.files = r.files], f, 0, p.u)
        ELSE Return(k, f, USIZE_MAX, p.u)

\* trap.rs sys_chmod()
sys_chmod(k, f, path) ==
    LET p == read_user_cstr_in_page(k.mem, NoUser(k.stie), f.a0, 255, path)
        c == chmod_file(k.files, path, f.a1)
    IN  IF p.u.fault THEN Fault(k, f, p.u)
        ELSE IF ~p.ok THEN Return(k, f, USIZE_MAX, p.u)
        ELSE IF c.ok THEN Return([k EXCEPT !.files = c.files], f, 0, p.u)
        ELSE Return(k, f, USIZE_MAX, p.u)

\* trap.rs sys_stat(): two u64 are written at a1
sys_stat(k, f, path) ==
    LET p == read_user_cstr_in_page(k.mem, NoUser(k.stie), f.a0, 255, path)
        st == stat_file(k.files, path)
        u == with_sum_no_timer(p.u, {Access(k.mem, f.a1, 16, PTE_W)})
    IN  IF p.u.fault THEN Fault(k, f, p.u)
        ELSE IF ~p.ok THEN Return(k, f, USIZE_MAX, p.u)
        ELSE IF ~st.ok THEN Return(k, f, USIZE_MAX, p.u)
        ELSE IF u.fault THEN Fault(k, f, u)
        ELSE Return(k, f, 0, u)

\* trap.rs sys_read(); avail >= 1 is the number of bytes the UART has when
\* the read of stdin stops blocking
sys_read(k, f, avail) ==
    LET fd == f.a0
        buf == f.a1
        len == cap_to_page(buf, f.a2)
        g == fd_get(k.fdt, fd)
        u0 == NoUser(k.stie)
    IN  IF buf = 0 \/ f.a2 = 0 THEN Return(k, f, 0, u0)
        ELSE IF fd = 0
        THEN LET n == Min(len, avail)
                 u == with_sum_no_timer(u0, {Access(k.mem, buf, n, PTE_W)})
             IN  IF u.fault THEN Fault(k, f, u) ELSE Return(k, f, n, u)
        ELSE IF fd = 1 \/ fd = 2 THEN Return(k, f, USIZE_MAX, u0)
        ELSE IF ~g.ok THEN Return(k, f, USIZE_MAX, u0)
        ELSE IF g.e.file_type.kind = "ReadOnly"
        THEN LET data == FILES[g.e.file_type.idx + 1].data IN
             IF g.e.offset >= Len(data) THEN Return(k, f, 0, u0)
             ELSE LET c == copy_to_user(k.mem, u0, buf, Min(len, Len(data) - g.e.offset)) IN
                  IF c.u.fault THEN Fault(k, f, c.u)
                  ELSE Return([k EXCEPT !.fdt = fd_advance(k.fdt, fd, c.n)], f, c.n, c.u)
        ELSE LET r == read_file(k.files, g.e.file_type.idx, g.e.offset, Min(len, 4096)) IN
             IF ~r.ok THEN Return(k, f, USIZE_MAX, u0)
             ELSE LET c == copy_to_user(k.mem, u0, buf, r.n) IN
                  IF c.u.fault THEN Fault(k, f, c.u)
                  ELSE Return([k EXCEPT !.fdt = fd_advance(k.fdt, fd, c.n)], f, c.n, c.u)

\* trap.rs sys_write_fd(); bytes is what user memory holds at a1
sys_write_fd(k, f, bytes) ==
    LET fd == f.a0
        buf == f.a1
        len == cap_to_page(buf, f.a2)
        g == fd_get(k.fdt, fd)
        u0 == NoUser(k.stie)
        u == with_sum_no_timer(u0, {Access(k.mem, buf, len, PTE_R)})
        uw == with_sum_no_timer(u0, {Access(k.mem, buf, Min(len, 4096), PTE_R)})
    IN  IF buf = 0 \/ f.a2 = 0 THEN Return(k, f, 0, u0)
        ELSE IF fd = 1 \/ fd = 2
        THEN IF u.fault THEN Fault(k, f, u) ELSE Return(k, f, len, u)
        ELSE IF ~g.ok THEN Return(k, f, USIZE_MAX, u0)
        ELSE IF ~g.e.writable THEN Return(k, f, USIZE_MAX, u0)
        ELSE IF g.e.file_type.kind = "ReadOnly" THEN Return(k, f, USIZE_MAX, u0)
        ELSE IF uw.fault THEN Fault(k, f, uw)
        ELSE LET w == write_file(k.files, g.e.file_type.idx, g.e.offset,
                                 SubSeq(bytes, 1, Min(len, 4096)))
             IN  IF w.ok
                 THEN Return([k EXCEPT !.files = w.files,
                                       !.fdt = fd_advance(k.fdt, fd, w.n)], f, w.n, uw)
                 ELSE Return(k, f, USIZE_MAX, uw)

\* a faulty variant of sys_lseek that rewinds the descriptor when the
\* resulting offset is negative or the whence is unknown
sys_lseek_rewinding(k, f) ==
    LET g == fd_get(k.fdt, f.a0)
        file_len == IF g.e.file_type.kind = "ReadOnly"
                    THEN Len(FILES[g.e.file_type.idx + 1].data)
                    ELSE file_size(k.files, g.e.file_type.idx)
        new_off == CASE f.a2 = 0 -> f.a1
                     [] f.a2 = 1 -> g.e.offset + f.a1
                     [] f.a2 = 2 -> file_len + f.a1
                     [] OTHER -> -1
        u0 == NoUser(k.stie)
    IN  IF ~g.ok THEN Return(k, f, USIZE_MAX, u0)
        ELSE IF file_len = -1 THEN Return(k, f, USIZE_MAX, u0)
        ELSE IF new_off < 0
        THEN Return([k EXCEPT !.fdt = fd_seek(k.fdt, f.a0, 0)], f, USIZE_MAX, u0)
        ELSE Return([k EXCEPT !.fdt = fd_seek(k.fdt, f.a0, new_off)], f, new_off, u0)

\* trap.rs sys_lseek(); a1 is read as a signed offset
sys_lseek(k, f) ==
    LET g == fd_get(k.fdt, f.a0)
        file_len == IF g.e.file_type.kind = "ReadOnly"
                    THEN Len(FILES[g.e.file_type.idx + 1].data)
                    ELSE file_size(k.files, g.e.file_type.idx)
        new_off == CASE f.a2 = 0 -> f.a1
                     [] f.a2 = 1 -> g.e.offset + f.a1
                     [] f.a2 = 2 -> file_len + f.a1
                     [] OTHER -> -1
        u0 == NoUser(k.stie)
    IN  IF ~g.ok THEN Return(k, f, USIZE_MAX, u0)
        ELSE IF file_len = -1 THEN Return(k, f, USIZE_MAX, u0)
        ELSE IF new_off < 0 THEN Return(k, f, USIZE_MAX, u0)
        ELSE Return([k EXCEPT !.fdt = fd_seek(k.fdt, f.a0, new_off)], f, new_off, u0)

RECURSIVE ListNames(_, _, _, _, _)
\* the loop of list_writable_files from record i: [count, offset]
ListNames(files, i, buflen, count, offset) ==
    IF i > Len(files) \/ offset + Len(files[i].name) + 1 > buflen
    THEN [count |-> count, offset |-> offset]
    ELSE ListNames(files, i + 1, buflen, count + 1, offset + Len(files[i].name) + 1)

\* fs.rs list_writable_files() into a buffer of buflen bytes: the number of
\* names and the bytes they take with their NULs
list_writable_files(files, buflen) == ListNames(files, 1, buflen, 0, 0)

\* trap.rs sys_readdir()
sys_readdir(k, f) ==
    LET buf_va == f.a0
        len == cap_to_page(buf_va, f.a1)
        l == list_writable_files(k.files, Min(len, 4096))
        c == copy_to_user(k.mem, NoUser(k.stie), buf_va, l.offset)
    IN  IF buf_va = 0 \/ f.a1 = 0 THEN Return(k, f, 0, NoUser(k.stie))
        ELSE IF l.count = 0 THEN Return(k, f, 0, NoUser(k.stie))
        ELSE IF c.u.fault THEN Fault(k, f, c.u)
        ELSE Return(k, f, l.count, c.u)

RECURSIVE BrkPagesOneMore(_, _, _)
RECURSIVE BrkPages(_, _, _)
\* a faulty variant of BrkPages that maps one page more
BrkPagesOneMore(m, va_pn, pages_needed) ==
    IF m.panic \/ pages_needed < 0 THEN m
    ELSE IF pages_needed = 0 THEN map_4k(alloc_user_page(m), va_pn, m.next, URW)
    ELSE With(BrkPagesOneMore(m, va_pn, ((pages_needed + 1) \div 2) - 1), LAMBDA h :
              BrkPagesOneMore(h, va_pn + ((pages_needed + 1) \div 2),
                              pages_needed - ((pages_needed + 1) \div 2)))

\* the for loop of sys_brk: pages_needed pages from old_page_end, the first
\* half of the iterations and then the rest
BrkPages(m, va_pn, pages_needed) ==
    IF m.panic \/ pages_needed <= 0 THEN m
    ELSE IF pages_needed = 1 THEN map_4k(alloc_user_page(m), va_pn, m.next, URW)
    ELSE With(BrkPages(m, va_pn, pages_needed \div 2), LAMBDA h :
              BrkPages(h, va_pn + (pages_needed \div 2),
                       pages_needed - (pages_needed \div 2)))

\* (x + 4095) & !4095
PageUp(x) == ((x + 4095) \div 4096) * 4096

\* trap.rs sys_brk()
sys_brk(k, f) ==
    LET req_brk == f.a0
        cur_brk == k.brk
        old_page_end == PageUp(cur_brk)
        new_page_end == PageUp(req_brk)
        m1 == IF new_page_end > old_page_end
              THEN BrkPages(k.mem, old_page_end \div 4096,
                            (new_page_end - old_page_end) \div 4096)
              ELSE k.mem
        u0 == NoUser(k.stie)
    IN  IF req_brk = 0 THEN Return(k, f, cur_brk, u0)
        ELSE IF req_brk > cur_brk
        THEN IF m1.panic THEN Result([k EXCEPT !.mem = m1], f, "panic", "", NoImg, u0)
             ELSE Return([k EXCEPT !.mem = m1, !.brk = req_brk], f, req_brk, u0)
        ELSE Return([k EXCEPT !.brk = req_brk], f, req_brk, u0)

\* timer.rs TICKS: no tick is ever armed (main.rs leaves timer::init() out)
TICKS == 0

\* trap.rs sys_gettime()
sys_gettime(k, f) == Return(k, f, k.ticks, NoUser(k.stie))

\* sbi shutdown(): the machine is powered off, the call does not return
shutdown(k, f) == Result(k, f, "off", "", NoImg, NoUser(k.stie))

\* trap.rs sys_poweroff()
sys_poweroff(k, f) == shutdown(k, f)

\* trap.rs sys_get_fb_info(): with the default (ANSI) console no framebuffer
\* is registered and display::get_framebuffer() is None
sys_get_fb_info(k, f) == Return(k, f, USIZE_MAX, NoUser(k.stie))

\* trap.rs sys_fb_flush(): display::flush_framebuffer() is false without a
\* framebuffer
sys_fb_flush(k, f) == Return(k, f, USIZE_MAX, NoUser(k.stie))

\* rust_trap(), the arm of the match for a number that is no syscall
unknown_syscall(k, f) == Return(k, f, USIZE_MAX, NoUser(k.stie))

\* sv39 reset_user_pages(): the user pool cursor is back at its first frame
reset_user_pages(m) == [m EXCEPT !.next = USER_PA_POOL_START_PN]

\* the pool pages a walk from the root can still reach
LivePtPages(pt) ==
    LET down(pages) ==
            { PoolPageOf(pt[key]) :
                key \in { x \in DOMAIN pt : x[1] \in pages /\ HasBit(pt[x].flags, PTE_V)
                                            /\ ~IsLeaf(pt[x]) } } \ {-1}
        l1 == down({0})
    IN  {0} \cup l1 \cup down(l1)

\* sv39 clear_user_mappings(): the L2 entry of the user gigabyte is zeroed;
\* the pool pages below it are never handed out again and are dropped
clear_user_mappings(m) ==
    LET i2 == vpn_indices(USER_VA_BASE \div PAGE_SIZE)[3]
        cut == [key \in DOMAIN m.pt \ {<< 0, i2 >>} |-> m.pt[key]]
        live == LivePtPages(cut)
    IN  [m EXCEPT !.pt = [key \in {x \in DOMAIN cut : x[1] \in live} |-> cut[key]]]

\* load_program(), both failure arms: tf.a0 = usize::MAX and sepc past the
\* ecall
exec_failed(k, f, err, u) ==
    Result(k, [f EXCEPT !.a0 = USIZE_MAX, !.sepc = f.sepc + 4], "ret", err, NoImg, u)

\* a faulty variant of start_program that also steps sepc past an ecall; C5
\* must tell it from start_program
start_program_advancing(k, f, img, u) ==
    Result([k EXCEPT !.brk = img.brk],
           [f EXCEPT !.sepc = img.entry_va + 4, !.sp = img.user_sp, !.a0 = img.argc,
                     !.a1 = img.argv_va, !.a2 = img.envp_va],
           "ret", "Ok", img, u)

\* load_program(), the Ok arm: the trap frame and USER_BRK are set from the
\* loader's image
start_program(k, f, img, u) ==
    Result([k EXCEPT !.brk = img.brk],
           [f EXCEPT !.sepc = img.entry_va, !.sp = img.user_sp, !.a0 = img.argc,
                     !.a1 = img.argv_va, !.a2 = img.envp_va],
           "ret", "Ok", img, u)

\* a faulty variant of load_found that clears the old mappings but leaves
\* the user pool cursor where the previous program left it
load_found_without_reset(k, f, u, file_data, argv) ==
    With(load_user_elf(clear_user_mappings(k.mem), u.stie,
                       file_data, USER_STACK_TOP_VA, USER_STACK_BYTES,
                       argv, << "PATH=/" >>), LAMBDA r :
    With([u EXCEPT !.csr = u.csr \cup r.csr], LAMBDA u1 :
        IF r.err = "panic"
        THEN Result([k EXCEPT !.mem = r.m], f, "panic", "panic", NoImg, u1)
        ELSE IF r.err = "Ok" THEN start_program([k EXCEPT !.mem = r.m], f, r.img, u1)
        ELSE exec_failed([k EXCEPT !.mem = r.m], f, r.err, u1)))

\* load_program() once the file is found: the old user pages and mappings
\* are dropped, then the loader runs
load_found(k, f, u, file_data, argv) ==
    With(load_user_elf(clear_user_mappings(reset_user_pages(k.mem)), u.stie,
                       file_data, USER_STACK_TOP_VA, USER_STACK_BYTES,
                       argv, << "PATH=/" >>), LAMBDA r :
    With([u EXCEPT !.csr = u.csr \cup r.csr], LAMBDA u1 :
        IF r.err = "panic"
        THEN Result([k EXCEPT !.mem = r.m], f, "panic", "panic", NoImg, u1)
        ELSE IF r.err = "Ok"
        THEN [start_program([k EXCEPT !.mem = r.m], f, r.img, u1) EXCEPT !.stack = r.stack]
        ELSE exec_failed([k EXCEPT !.mem = r.m], f, r.err, u1)))

\* a faulty variant of load_program that drops the old user pages and
\* mappings before it looks the file up; C4 must tell it from load_program
load_program_clearing_first(k, f, u, name, argv) ==
    With(get_file_data(k.files, name), LAMBDA file_data :
    IF ~file_data.ok
    THEN exec_failed([k EXCEPT !.mem = clear_user_mappings(reset_user_pages(k.mem))],
                     f, "NotFound", u)
    ELSE load_found(k, f, u, file_data.data, argv))

\* trap.rs load_program(); u is what the caller has done to user memory
load_program(k, f, u, name, argv) ==
    With(get_file_data(k.files, name), LAMBDA file_data :
    IF ~file_data.ok THEN exec_failed(k, f, "NotFound", u)
    ELSE load_found(k, f, u, file_data.data, argv))

\* trap.rs sys_exec(); path is the string user memory holds at a0
sys_exec(k, f, path) ==
    LET p == read_user_cstr_in_page(k.mem, NoUser(k.stie), f.a0, 255, path) IN
    IF p.u.fault THEN Fault(k, f, p.u)
    ELSE IF ~p.ok THEN Return(k, f, USIZE_MAX, p.u)
    ELSE load_program(k, f, p.u, path, << path >>)

\* the bytes the inner loop of sys_execv reads of the string str at ptr
ArgBytes(ptr, str) == CstrBytes(str, Min(PageEnd(ptr) - ptr, 63))

\* the string the inner loop of sys_execv copies
ArgStr(ptr, str) == SubSeq(str, 1, Min(Len(str), Min(PageEnd(ptr) - ptr, 63)))

\* trap.rs sys_execv(); user memory holds path at a0 and, at a1, the
\* pointers args[i].ptr followed by NULL, with the string args[i].str at
\* each of them
sys_execv(k, f, path, args) ==
    LET p == read_user_cstr_in_page(k.mem, NoUser(k.stie), f.a0, 255, path)
        argv_va == f.a1
        argv_count == Min(Len(args), 16)
        ptrs == Access(k.mem, argv_va, 8 * Min(Len(args) + 1, 16), PTE_R)
        str(i) == Access(k.mem, args[i].ptr, ArgBytes(args[i].ptr, args[i].str), PTE_R)
        \* string i is read when the pointers before it and the strings
        \* before it were
        read == { i \in 1..argv_count :
                    /\ CanAccess(k.mem, argv_va, 8 * i, PTE_R)
                    /\ \A j \in 1..(i - 1) : str(j).ok }
        u == with_sum_no_timer(p.u, {ptrs} \cup { str(i) : i \in read })
        argv == [i \in 1..argv_count |-> ArgStr(args[i].ptr, args[i].str)]
    IN  IF p.u.fault THEN Fault(k, f, p.u)
        ELSE IF ~p.ok THEN Return(k, f, USIZE_MAX, p.u)
        ELSE IF u.fault THEN Fault(k, f, u)
        ELSE load_program(k, f, u, path, argv)

\* trap.rs sys_exit()
sys_exit(k, f) ==
    LET tbl == [fd \in 0..(MAX_FD - 1) |-> IF fd >= 3 THEN EMPTY ELSE k.fdt[fd]]
        paths == [fd \in 0..(MAX_FD - 1) |-> IF fd >= 3 THEN "" ELSE k.fd_path[fd]]
    IN  load_program([k EXCEPT !.fdt = tbl, !.fd_path = paths], f, NoUser(k.stie),
                     "shell.elf", << "shell.elf" >>)

(***************************************************************************)
(* The machine: one user program at a time makes ecalls; each action is    *)
(* one trap, from trap_entry through rust_trap and the handler to the trap *)
(* return (or to the halt).                                                *)
(***************************************************************************)
VARIABLES
    files,      \* fs.rs WRITABLE_FILES
    fdt,        \* trap.rs FD_TABLE
    fd_path,    \* the path each descriptor was opened or created with
    mem,        \* sv39.rs PT_POOL, PT_CUR, USER_NEXT_PA
    USER_BRK,   \* trap.rs USER_BRK
    stie,       \* sie.STIE
    tf,         \* the user context: the registers of the trap frame and sepc
    sscratch,   \* the sscratch CSR
    ticks,      \* timer.rs TICKS
    last,       \* the last trap: number, sepc at the ecall and what it did
    kstate,     \* "user", "halted" (wfi loop after a fatal trap or panic), "off"
    held,       \* the spin mutexes that are locked: WRITABLE_FILES, FD_TABLE
    kfn         \* the kernel function that runs and the steps it has left

vars == << files, fdt, fd_path, mem, USER_BRK, stie, tf, sscratch, ticks, last, kstate,
          held, kfn >>

\* user addresses a program passes: a buffer in its top stack page, the last
\* 8 bytes of the page below it, an address nothing is mapped at, and the
\* place of a string apart from the buffers
BUF == USER_STACK_TOP_VA - PAGE_SIZE
NEAR_END == BUF - 8
STR == BUF + 256
UNMAPPED == USER_VA_BASE + 16 * PAGE_SIZE * PAGE_SIZE
Ptrs == {BUF, NEAR_END, UNMAPPED}

\* what the user programs of the model pass and hold in memory
Names == {"shell.elf", "a"}
NewNames == {"a"}
StatNames == {"shell.elf"}
Chunks == {ProgElf}
Seeks == { << 0, 0 >>, << 0, 2 >>, << 0, 3 >> }
SeekFds == {3}
Args == { << [ptr |-> STR, str |-> "a"] >> }
BrkReqs == {0, SHELL_ENTRY + 2 * PAGE_SIZE}
EcallPcs == {SHELL_ENTRY, PROG_ENTRY}

\* the bounds of the model
MaxFiles == 3
MaxPtCur == 8

\* kfn while user code runs: no kernel function is active
UserCode == [fn |-> "user", todo |-> << >>]

K == [files |-> files, fdt |-> fdt, fd_path |-> fd_path, mem |-> mem,
      brk |-> USER_BRK, stie |-> stie, ticks |-> ticks]

\* stack.rs init_trap_stack(): the top of KTRAP_STACK, which sscratch holds
\* while user code runs (kernel addresses are held as offsets from
\* DRAM_BASE); 152 bytes below it is room for one TrapFrame
KTRAP_STACK_TOP == 4194304
TRAP_FRAME_SIZE == 152

\* trap_entry.rs __trap_entry, up to the call of rust_trap, entered with the
\* user registers u and sscratch = scratch: [frame, ksp, sscratch].  t0 is
\* loaded with the user sp (csrr t0, sscratch) before it is stored, so the
\* frame's t0 slot holds the user sp
trap_entry(u, scratch) ==
    [frame |-> [u EXCEPT !.t0 = u.sp], ksp |-> scratch - TRAP_FRAME_SIZE,
     sscratch |-> u.sp]

\* trap_entry.rs __trap_entry, from the return of rust_trap to sret, with
\* the frame f at ksp: [regs, sscratch].  Every saved register is reloaded
\* from its slot except t0, which is left holding the user sp
trap_exit(f, ksp) ==
    [regs |-> [f EXCEPT !.t0 = f.sp], sscratch |-> ksp + TRAP_FRAME_SIZE]

\* the trap frame trap_entry saves at an ecall at pc
Frame(pc, nr, a0, a1, a2) ==
    trap_entry([tf EXCEPT !.sepc = pc, !.a7 = nr, !.a0 = a0, !.a1 = a1, !.a2 = a2],
               sscratch).frame

\* the user program runs and reaches an ecall at pc
UserAt(pc) ==
    /\ kstate = "user"
    /\ CanExecute(mem, tf.sepc)
    /\ pc \in EcallPcs
    /\ CanExecute(mem, pc)

InUse(tbl) == { fd \in 0..(MAX_FD - 1) : tbl[fd].in_use }

Bounded(k) ==
    /\ Len(k.files) <= MaxFiles
    /\ \A i \in 1..Len(k.files) : Len(k.files[i].data) <= MaxFileLen
    /\ Cardinality(InUse(k.fdt)) <= MaxOpen
    /\ \A fd \in InUse(k.fdt) : k.fdt[fd].offset <= MaxFileLen
    /\ k.mem.cur <= MaxPtCur

\* the trap at pc with result r: what it leaves in the kernel's state and
\* in the user context
TrapStep(pc, nr, r) ==
    /\ files' = r.k.files
    /\ fdt' = r.k.fdt
    /\ fd_path' = r.k.fd_path
    /\ mem' = r.k.mem
    /\ USER_BRK' = r.k.brk
    /\ stie' = r.k.stie
    /\ ticks' = r.k.ticks
    /\ IF r.outcome = "ret"
       THEN LET x == trap_exit(r.tf, trap_entry(tf, sscratch).ksp) IN
            tf' = x.regs /\ sscratch' = x.sscratch
       ELSE tf' = r.tf /\ sscratch' = trap_entry(tf, sscratch).sscratch
    /\ last' = [nr |-> nr, sepc |-> pc, outcome |-> r.outcome, err |-> r.err,
                img |-> r.img, csr |-> r.csr, touch |-> r.touch, stack |-> r.stack]
    /\ kstate' = CASE r.outcome = "ret" -> "user"
                   [] r.outcome = "off" -> "off"
                   [] OTHER -> "halted"
    /\ UNCHANGED << held, kfn >>

\* the trap at pc with result r, within the bounds of the model
Trap(pc, nr, r) ==
    /\ Bounded(r.k)
    /\ TrapStep(pc, nr, r)

Init ==
    \E boot \in {BootLoad} :
        /\ files = init_writable_fs
        /\ fdt = [fd \in 0..(MAX_FD - 1) |-> EMPTY]
        /\ fd_path = [fd \in 0..(MAX_FD - 1) |-> ""]
        /\ mem = boot.m
        /\ USER_BRK = boot.img.brk
        /\ stie = TRUE
        /\ tf = [sepc |-> boot.img.entry_va, sp |-> boot.img.user_sp,
                 a0 |-> boot.img.argc, a1 |-> boot.img.argv_va,
                 a2 |-> boot.img.envp_va, a3 |-> 0, a4 |-> 0, a5 |-> 0, a6 |-> 0,
                 a7 |-> 0, ra |-> 0, t0 |-> 0, t1 |-> 0, t2 |-> 0, t3 |-> 0,
                 t4 |-> 0, t5 |-> 0, t6 |-> 0]
        /\ sscratch = KTRAP_STACK_TOP
        /\ ticks = TICKS
        /\ last = [nr |-> 0, sepc |-> 0, outcome |-> "boot", err |-> "Ok",
                   img |-> boot.img, csr |-> boot.csr, touch |-> {},
                   stack |-> boot.stack]
        /\ kstate = "user"
        /\ held = {}
        /\ kfn = UserCode

SysWrite ==
    \E pc \in EcallPcs, a0 \in Ptrs :
        /\ UserAt(pc)
        /\ Trap(pc, NR_WRITE, sys_write_ptrlen(K, Frame(pc, NR_WRITE, a0, 10, 0)))

SysExit ==
    \E pc \in EcallPcs :
        /\ UserAt(pc)
        /\ Trap(pc, NR_EXIT, sys_exit(K, Frame(pc, NR_EXIT, 0, 0, 0)))

SysWriteCstr ==
    \E pc \in EcallPcs, a0 \in {BUF, UNMAPPED} :
        /\ UserAt(pc)
        /\ Trap(pc, NR_WRITE_CSTR,
                sys_write_cstr(K, Frame(pc, NR_WRITE_CSTR, a0, 0, 0), "shell.elf"))

SysOpen ==
    \E pc \in EcallPcs, a0 \in {0, BUF, UNMAPPED}, path \in Names :
        /\ UserAt(pc)
        /\ Trap(pc, NR_OPEN, sys_open(K, Frame(pc, NR_OPEN, a0, 0, 0), path))

SysRead ==
    \E pc \in EcallPcs, fd \in {0, 1, 3}, buf \in {BUF, UNMAPPED} :
        /\ UserAt(pc)
        /\ (fd = 1 => buf = BUF)
        /\ Trap(pc, NR_READ, sys_read(K, Frame(pc, NR_READ, fd, buf, 200), 1))

SysWriteFd ==
    \E pc \in EcallPcs, fd \in {1, 3}, buf \in {BUF, UNMAPPED}, bytes \in Chunks :
        /\ UserAt(pc)
        /\ (fd = 1 => buf = BUF)
        /\ Trap(pc, NR_WRITE_FD,
                sys_write_fd(K, Frame(pc, NR_WRITE_FD, fd, buf, Len(bytes)), bytes))

SysClose ==
    \E pc \in EcallPcs, fd \in {3} :
        /\ UserAt(pc)
        /\ Trap(pc, NR_CLOSE, sys_close(K, Frame(pc, NR_CLOSE, fd, 0, 0)))

SysLseek ==
    \E pc \in EcallPcs, fd \in SeekFds, sk \in Seeks :
        /\ UserAt(pc)
        /\ Trap(pc, NR_LSEEK, sys_lseek(K, Frame(pc, NR_LSEEK, fd, sk[1], sk[2])))

SysBrk ==
    \E pc \in EcallPcs, a0 \in BrkReqs :
        /\ UserAt(pc)
        /\ Trap(pc, NR_BRK, sys_brk(K, Frame(pc, NR_BRK, a0, 0, 0)))

SysGettime ==
    \E pc \in EcallPcs :
        /\ UserAt(pc)
        /\ Trap(pc, NR_GETTIME, sys_gettime(K, Frame(pc, NR_GETTIME, 0, 0, 0)))

SysPoweroff ==
    \E pc \in EcallPcs :
        /\ UserAt(pc)
        /\ Trap(pc, NR_POWEROFF, sys_poweroff(K, Frame(pc, NR_POWEROFF, 0, 0, 0)))

SysExec ==
    \E pc \in EcallPcs, a0 \in {BUF, UNMAPPED}, path \in Names :
        /\ UserAt(pc)
        /\ Trap(pc, NR_EXEC, sys_exec(K, Frame(pc, NR_EXEC, a0, 0, 0), path))

SysExecv ==
    \E pc \in EcallPcs, path \in NewNames, a1 \in Ptrs, args \in Args :
        /\ UserAt(pc)
        /\ Trap(pc, NR_EXECV,
                sys_execv(K, Frame(pc, NR_EXECV, STR, a1, 0), path, args))

SysCreat ==
    \E pc \in EcallPcs, a0 \in {BUF, UNMAPPED}, path \in NewNames :
        /\ UserAt(pc)
        /\ Trap(pc, NR_CREAT, sys_creat(K, Frame(pc, NR_CREAT, a0, 0, 0), path))

SysUnlink ==
    \E pc \in EcallPcs, a0 \in {BUF, UNMAPPED}, path \in Names :
        /\ UserAt(pc)
        /\ Trap(pc, NR_UNLINK, sys_unlink(K, Frame(pc, NR_UNLINK, a0, 0, 0), path))

SysStat ==
    \E pc \in EcallPcs, path \in StatNames, a1 \in Ptrs :
        /\ UserAt(pc)
        /\ Trap(pc, NR_STAT, sys_stat(K, Frame(pc, NR_STAT, STR, a1, 0), path))

SysChmod ==
    \E pc \in EcallPcs, path \in NewNames :
        /\ UserAt(pc)
        /\ Trap(pc, NR_CHMOD, sys_chmod(K, Frame(pc, NR_CHMOD, BUF, 384, 0), path))

SysReaddir ==
    \E pc \in EcallPcs, a0 \in {BUF, UNMAPPED} :
        /\ UserAt(pc)
        /\ Trap(pc, NR_READDIR, sys_readdir(K, Frame(pc, NR_READDIR, a0, 12, 0)))

SysGetFbInfo ==
    \E pc \in EcallPcs :
        /\ UserAt(pc)
        /\ Trap(pc, NR_GET_FB_INFO,
                sys_get_fb_info(K, Frame(pc, NR_GET_FB_INFO, BUF, 0, 0)))

SysFbFlush ==
    \E pc \in EcallPcs :
        /\ UserAt(pc)
        /\ Trap(pc, NR_FB_FLUSH, sys_fb_flush(K, Frame(pc, NR_FB_FLUSH, 0, 0, 0)))

SysUnknown ==
    \E pc \in EcallPcs :
        /\ UserAt(pc)
        /\ Trap(pc, 21, unknown_syscall(K, Frame(pc, 21, 0, 0, 0)))

\* the user program resumes at an address it cannot fetch from: the
\* instruction page fault takes rust_trap's last branch
InstrFault ==
    /\ kstate = "user"
    /\ ~CanExecute(mem, tf.sepc)
    /\ kstate' = "halted"
    /\ UNCHANGED << files, fdt, fd_path, mem, USER_BRK, stie, tf, sscratch, ticks, last,
                    held, kfn >>

Next ==
    \/ SysWrite
    \/ SysExit
    \/ SysWriteCstr
    \/ SysOpen
    \/ SysRead
    \/ SysWriteFd
    \/ SysClose
    \/ SysLseek
    \/ SysBrk
    \/ SysGettime
    \/ SysPoweroff
    \/ SysExec
    \/ SysExecv
    \/ SysCreat
    \/ SysUnlink
    \/ SysStat
    \/ SysChmod
    \/ SysReaddir
    \/ SysGetFbInfo
    \/ SysFbFlush
    \/ SysUnknown
    \/ InstrFault

Spec == Init /\ [][Next]_vars

(***************************************************************************)
(* Properties.                                                             *)
(*                                                                         *)
(* Every step that starts in a state where the user program runs is one    *)
(* trap, and last' describes it: InstrFault is the only other action and   *)
(* needs a program counter that cannot be fetched from.                    *)
(***************************************************************************)
\* the user program is running and its next instruction can be fetched
Running == kstate = "user" /\ CanExecute(mem, tf.sepc)

ExecNrs == {NR_EXEC, NR_EXECV}

\* the errors of load_user_elf for a file it rejects
LoaderErrors ==
    {"Short", "BadMagic", "Not64LE", "NotRiscv", "PhOutOfBounds", "SegmentOverflow"}

\* the user pages the programs of the model can have mapped, and what the
\* tables map them to
UserPageRange == (USER_VA_BASE \div PAGE_SIZE) .. ((PROG_ENTRY \div PAGE_SIZE) + 2)
UserMappings(m) == [pg \in UserPageRange |-> Translate(m, pg)]

\* descriptor fd denotes an existing record of its layer, and the record
\* has the name the descriptor was opened or created with
DenotesOpenedFile(fd) ==
    LET idx == fdt[fd].file_type.idx IN
    IF fdt[fd].file_type.kind = "Writable"
    THEN idx < Len(files) /\ files[idx + 1].name = fd_path[fd]
    ELSE idx < Len(FILES) /\ FILES[idx + 1].name = fd_path[fd]

\* C1: in every reachable state, every descriptor in use denotes an existing
\* record of its layer (writable list or embedded table), and that record is
\* the file that was named when the descriptor was opened or created.
C1_DescriptorsDenoteOpenedFile == \A fd \in InUse(fdt) : DenotesOpenedFile(fd)

\* C2: after a successful exec or execv no descriptor with index >= 3 is in
\* use.
C2_ExecReleasesDescriptors ==
    (last.nr \in ExecNrs /\ last.outcome = "ret" /\ last.err = "Ok")
        => \A fd \in 3..(MAX_FD - 1) : ~fdt[fd].in_use

\* C3: when exec/execv names a file that exists and the loader rejects it,
\* the trap returns a0 = usize::MAX with sepc 4 past the ecall, the user
\* mappings, the user-pool cursor and USER_BRK are as before the call, and
\* the calling program can go on (its next instruction can be fetched).
C3_RejectedExecKeepsCaller ==
    [][(Running /\ last'.nr \in ExecNrs /\ last'.err \in LoaderErrors)
         => /\ kstate' = "user"
            /\ tf'.a0 = USIZE_MAX
            /\ tf'.sepc = last'.sepc + 4
            /\ UserMappings(mem') = UserMappings(mem)
            /\ mem'.next = mem.next
            /\ USER_BRK' = USER_BRK
            /\ CanExecute(mem', tf'.sepc)]_vars

\* C4: exec/execv of a path that is absent from the filesystem returns
\* usize::MAX in a0 with sepc 4 past the ecall and leaves the page tables,
\* both allocator cursors, USER_BRK, the FD table and the filesystem
\* unchanged; the kernel goes back to the user program (no panic, no halt).
C4_AbsentExecChangesNothing ==
    [][(Running /\ last'.nr \in ExecNrs /\ last'.err = "NotFound")
         => /\ kstate' = "user"
            /\ last'.outcome = "ret"
            /\ tf'.a0 = USIZE_MAX
            /\ tf'.sepc = last'.sepc + 4
            /\ mem' = mem
            /\ USER_BRK' = USER_BRK
            /\ fdt' = fdt
            /\ files' = files]_vars

\* an exec of an absent path has returned while a descriptor is open and the
\* program has grown its heap
C4_Witness ==
    /\ last.nr \in ExecNrs
    /\ last.err = "NotFound"
    /\ kstate = "user"
    /\ InUse(fdt) # {}
    /\ tf.a0 = USIZE_MAX

\* C5: when exec/execv succeeds the trap frame has sepc = the entry address
\* of the ELF (not advanced by 4), sp, a0 = argc, a1 = argv_va, a2 = envp_va
\* as the loader returned them, and USER_BRK is the loader's brk.
C5_ExecInstallsImage ==
    (last.nr \in ExecNrs /\ last.outcome = "ret" /\ last.err = "Ok")
        => /\ tf.sepc = last.img.entry_va
           /\ last.img.entry_va \in {SHELL_ENTRY, PROG_ENTRY}
           /\ tf.sp = last.img.user_sp
           /\ tf.a0 = last.img.argc
           /\ tf.a1 = last.img.argv_va
           /\ tf.a2 = last.img.envp_va
           /\ USER_BRK = last.img.brk

\* an execv of the program a user wrote has succeeded with one argument
C5_Witness ==
    /\ last.nr = NR_EXECV
    /\ last.err = "Ok"
    /\ tf.sepc = PROG_ENTRY
    /\ tf.a0 = 1
    /\ USER_BRK = PROG_ENTRY + 4100

\* C6: exit never returns to the calling program: whatever the filesystem
\* holds, the trap return after exit resumes at the entry point of a freshly
\* loaded shell.elf with descriptors 3.. released, never at the instruction
\* after the caller's ecall.
C6_ExitNeverReturns ==
    (last.nr = NR_EXIT /\ last.outcome = "ret")
        => /\ last.err = "Ok"
           /\ tf.sepc = last.img.entry_va
           /\ tf.sepc # last.sepc + 4
           /\ \A fd \in 3..(MAX_FD - 1) : ~fdt[fd].in_use

\* C7: every ecall that returns to user mode has sepc advanced by exactly 4
\* from the ecall, except a successful exec, execv or exit, which leaves
\* sepc at the entry of the new image; a number that is no syscall returns
\* usize::MAX.
C7_ReturnAdvancesSepc ==
    last.outcome = "ret"
        => /\ IF last.err = "Ok"
              THEN last.nr \in {NR_EXEC, NR_EXECV, NR_EXIT}
                   /\ tf.sepc = last.img.entry_va
              ELSE tf.sepc = last.sepc + 4
           /\ (last.nr \notin NR_WRITE..NR_FB_FLUSH => tf.a0 = USIZE_MAX)

\* the second program has made an ecall with a number that is no syscall
C7_Witness ==
    /\ last.nr \notin NR_WRITE..NR_FB_FLUSH
    /\ last.outcome = "ret"
    /\ last.sepc = PROG_ENTRY
    /\ tf.sepc = PROG_ENTRY + 4
    /\ tf.a0 = USIZE_MAX

\* C8: a syscall given a pointer to an unmapped page returns usize::MAX with
\* sepc past the ecall; the kernel neither panics nor halts and goes on
\* serving the user program.
C8_UnmappedPointerReturnsError ==
    (\E t \in last.touch : ~t.ok)
        => /\ last.outcome = "ret"
           /\ kstate = "user"
           /\ tf.a0 = USIZE_MAX
           /\ tf.sepc = last.sepc + 4

\* C9: whenever SSTATUS.SUM is set, the supervisor timer interrupt enable
\* (sie.STIE) is clear: this holds of every (SUM, STIE) pair the CSRs pass
\* through in a trap and in the loader.
C9_SumOnlyWithTimerOff == \A c \in last.csr : c.sum => ~c.stie

\* C10: every access of the kernel to user memory that starts at a user
\* address va touches at most 4096 - (va mod 4096) bytes.
C10_AccessStaysInPage ==
    \A t \in last.touch : t.len <= PAGE_SIZE - (t.va % PAGE_SIZE)

(***************************************************************************)
(* The supervisor timer interrupt.  rust_start leaves timer::init() out,   *)
(* so the kernel itself never arms a tick and Next has no timer step; but  *)
(* trap::init() sets sie.STIE and every on_timer re-arms the next tick, so *)
(* once the environment delivers one, the interrupts keep coming.          *)
(* SpecTimer is the user program computing in registers while timer        *)
(* interrupts arrive.                                                      *)
(***************************************************************************)
\* the most ticks followed
MaxTicks == 3

\* the registers the user program is followed writing, and the values
UserRegs == {"ra", "t0", "t1", "a0", "t6"}
RegVals == {0, 7}

\* timer.rs on_timer(): TICKS.fetch_add(1)
on_timer(k) == [k EXCEPT !.ticks = k.ticks + 1]

\* a user instruction that writes a register
UserCompute ==
    /\ kstate = "user"
    /\ \E r \in UserRegs, v \in RegVals :
        /\ tf[r] # v
        /\ tf' = [tf EXCEPT ![r] = v]
    /\ UNCHANGED << files, fdt, fd_path, mem, USER_BRK, stie, sscratch, ticks, last, kstate,
                    held, kfn >>

\* a supervisor timer interrupt taken in user mode: __trap_entry, the
\* SupervisorTimer arm of rust_trap, and the return through sret
TimerInterrupt ==
    /\ kstate = "user"
    /\ stie
    /\ ticks < MaxTicks
    /\ LET e == trap_entry(tf, sscratch)
           k == on_timer(K)
           x == trap_exit(e.frame, e.ksp)
       IN  /\ tf' = x.regs
           /\ sscratch' = x.sscratch
           /\ ticks' = k.ticks
    /\ UNCHANGED << files, fdt, fd_path, mem, USER_BRK, stie, last, kstate, held, kfn >>

NextTimer ==
    \/ UserCompute
    \/ TimerInterrupt

SpecTimer == Init /\ [][NextTimer]_vars

\* C11: a timer interrupt taken in user mode is transparent to the user
\* program: after it the program counter and every register of the frame
\* (ra, sp, t0..t6, a0..a7) hold the values they had before it, and sscratch
\* again holds the top of the kernel trap stack.
C11_TimerInterruptTransparent ==
    [][ticks' = ticks + 1 => tf' = tf /\ sscratch' = KTRAP_STACK_TOP]_vars

(***************************************************************************)
(* The descriptor table under load.  Spec follows one open descriptor;     *)
(* SpecFd follows the file syscalls alone, from the booted kernel, with    *)
(* all 29 descriptors.  Its steps record the arguments of the call in      *)
(* last (a0, a1, a2, and the path where there is one).                     *)
(***************************************************************************)
\* the longest file written, and the slots a descriptor opened by creat is
\* followed in
MaxWritten == 2
CreatSlots == {3, 31}

FdNames == {"etc/motd", "nofile"}
FdCloses == {0, 3, 31, 32}
FdSeekFds == {2, 3, 32}
FdSeeks == { << 0, 0 >>, << 5, 0 >>, << -1, 0 >>, << 0, 1 >>, << -20, 1 >>,
             << 0, 2 >>, << -30, 2 >>, << 0, 3 >> }
FdReadFds == {1, 2, 3, 32}
FdWriteFds == {3, 32}
FdChunk == << 1, 2 >>

FdBounded(k) ==
    /\ \A fd \in InUse(k.fdt) : k.fdt[fd].writable => fd \in CreatSlots
    /\ \A i \in 1..Len(k.files) :
           lookup(k.files[i].name) = -1 => Len(k.files[i].data) <= MaxWritten
    /\ \A fd \in InUse(k.fdt) : k.fdt[fd].offset <= MaxFileLen

\* the trap of a file syscall with frame f, path argument path and result r
Serve(f, path, r) ==
    /\ r.outcome = "ret"
    /\ FdBounded(r.k)
    /\ files' = r.k.files
    /\ fdt' = r.k.fdt
    /\ fd_path' = r.k.fd_path
    /\ LET x == trap_exit(r.tf, trap_entry(tf, sscratch).ksp) IN
       tf' = x.regs /\ sscratch' = x.sscratch
    /\ last' = [nr |-> f.a7, sepc |-> f.sepc, a0 |-> f.a0, a1 |-> f.a1, a2 |-> f.a2,
                path |-> path, outcome |-> r.outcome, ret |-> r.tf.a0]
    /\ UNCHANGED << mem, USER_BRK, stie, ticks, kstate, held, kfn >>

FdOpen ==
    \E path \in FdNames :
        /\ kstate = "user"
        /\ LET f == Frame(SHELL_ENTRY, NR_OPEN, BUF, 0, 0)
           IN  Serve(f, path, sys_open(K, f, path))

FdCreat ==
    \E path \in NewNames :
        /\ kstate = "user"
        /\ LET f == Frame(SHELL_ENTRY, NR_CREAT, BUF, 0, 0)
           IN  Serve(f, path, sys_creat(K, f, path))

FdClose ==
    \E fd \in FdCloses :
        /\ kstate = "user"
        /\ LET f == Frame(SHELL_ENTRY, NR_CLOSE, fd, 0, 0)
           IN  Serve(f, "", sys_close(K, f))

FdLseek ==
    \E fd \in FdSeekFds, sk \in FdSeeks :
        /\ kstate = "user"
        /\ LET f == Frame(SHELL_ENTRY, NR_LSEEK, fd, sk[1], sk[2])
           IN  Serve(f, "", sys_lseek(K, f))

FdRead ==
    \E fd \in FdReadFds :
        /\ kstate = "user"
        /\ LET f == Frame(SHELL_ENTRY, NR_READ, fd, BUF, 30)
           IN  Serve(f, "", sys_read(K, f, 1))

FdWrite ==
    \E fd \in FdWriteFds :
        /\ kstate = "user"
        /\ LET f == Frame(SHELL_ENTRY, NR_WRITE_FD, fd, BUF, Len(FdChunk))
           IN  Serve(f, "", sys_write_fd(K, f, FdChunk))

FdUnlink ==
    \E path \in {"nofile"} :
        /\ kstate = "user"
        /\ LET f == Frame(SHELL_ENTRY, NR_UNLINK, BUF, 0, 0)
           IN  Serve(f, path, sys_unlink(K, f, path))

FdStat ==
    \E path \in {"nofile"} :
        /\ kstate = "user"
        /\ LET f == Frame(SHELL_ENTRY, NR_STAT, STR, BUF, 0)
           IN  Serve(f, path, sys_stat(K, f, path))

FdChmod ==
    \E path \in {"nofile"} :
        /\ kstate = "user"
        /\ LET f == Frame(SHELL_ENTRY, NR_CHMOD, BUF, 384, 0)
           IN  Serve(f, path, sys_chmod(K, f, path))

NextFd ==
    \/ FdOpen
    \/ FdCreat
    \/ FdClose
    \/ FdLseek
    \/ FdRead
    \/ FdWrite
    \/ FdUnlink
    \/ FdStat
    \/ FdChmod

SpecFd == Init /\ [][NextFd]_vars

\* a step of SpecFd served the syscall nr
Served(nr) == last'.outcome = "ret" /\ last'.nr = nr

\* the free slots a descriptor can be allocated in
FreeSlots(tbl) == { fd \in 3..(MAX_FD - 1) : ~tbl[fd].in_use }

\* C12: slots 0, 1 and 2 of the descriptor table are never in use; a
\* descriptor returned by open or creat is the lowest free index in 3..31;
\* at most 29 descriptors are open, and with 29 open the next open or creat
\* returns usize::MAX; after close(fd) the slot is free again and is among
\* those the next open or creat chooses from.
C12_DescriptorAllocation ==
    /\ [](\A fd \in 0..2 : ~fdt[fd].in_use)
    /\ [](Cardinality(InUse(fdt)) <= 29)
    /\ [][/\ (Served(NR_OPEN) \/ Served(NR_CREAT)) /\ last'.ret # USIZE_MAX =>
              /\ last'.ret \in FreeSlots(fdt)
              /\ \A fd \in FreeSlots(fdt) : last'.ret <= fd
              /\ InUse(fdt') = InUse(fdt) \cup {last'.ret}
          /\ (Served(NR_OPEN) \/ Served(NR_CREAT)) /\ Cardinality(InUse(fdt)) = 29 =>
              last'.ret = USIZE_MAX /\ fdt' = fdt
          /\ Served(NR_CLOSE) /\ last'.ret = 0 =>
              /\ ~fdt'[last'.a0].in_use
              /\ last'.a0 \in FreeSlots(fdt')]_vars

\* all 29 descriptors are open and an open of an existing file was refused
C12_Witness ==
    /\ last.outcome = "ret" /\ last.nr = NR_OPEN /\ last.path = "etc/motd"
    /\ last.ret = USIZE_MAX
    /\ Cardinality(InUse(fdt)) = 29

\* fd is no open descriptor of tbl
NotOpen(tbl, fd) == fd < 0 \/ fd >= MAX_FD \/ ~tbl[fd].in_use

\* the length of the file the open descriptor fd denotes
FileLenOf(fd) ==
    IF fdt[fd].file_type.kind = "ReadOnly"
    THEN Len(FILES[fdt[fd].file_type.idx + 1].data)
    ELSE Len(files[fdt[fd].file_type.idx + 1].data)

\* the offset lseek(fd, off, whence) asks for, -1 for an unknown whence
SeekTarget(fd, off, whence) ==
    CASE whence = 0 -> off
      [] whence = 1 -> fdt[fd].offset + off
      [] whence = 2 -> FileLenOf(fd) + off
      [] OTHER -> -1

\* the name is in neither the writable nor the embedded file set
NoSuchFile(name) == Position(files, name) = -1 /\ lookup(name) = -1

\* the call c = [nr, a0, a1, a2, path] is one of the ordinary failures
OrdinaryFailure(c) ==
    \/ /\ c.nr = NR_READ /\ c.a1 # 0 /\ c.a2 > 0
       /\ c.a0 \in {1, 2} \/ (c.a0 # 0 /\ NotOpen(fdt, c.a0))
    \/ /\ c.nr = NR_WRITE_FD /\ c.a1 # 0 /\ c.a2 > 0
       /\ c.a0 \notin {1, 2} /\ NotOpen(fdt, c.a0)
    \/ c.nr = NR_CLOSE /\ NotOpen(fdt, c.a0)
    \/ /\ c.nr = NR_LSEEK
       /\ \/ NotOpen(fdt, c.a0)
          \/ c.a2 \notin {0, 1, 2}
          \/ SeekTarget(c.a0, c.a1, c.a2) < 0
    \/ c.nr \in {NR_OPEN, NR_UNLINK, NR_STAT, NR_CHMOD} /\ NoSuchFile(c.path)

C14_ResolvesInWritableLayerOnly ==
    [][Running /\ last'.outcome = "ret" =>
          /\ last'.nr = NR_OPEN /\ tf'.a0 # USIZE_MAX =>
                 Position(files, fd_path'[tf'.a0]) # -1
          /\ last'.nr = NR_STAT /\ tf'.a0 = 0 =>
                 \E name \in StatNames : Position(files, name) # -1]_vars

(***************************************************************************)
(* The writable file store by itself.  SpecFs applies the functions of     *)
(* fs.rs to the booted store; last records the call, its result and, in    *)
(* hist, the writes made to the file "a" since it was last created.        *)
(***************************************************************************)
\* the most writes followed since "a" was created
MaxWrites == 3

FsNames == {"a", "etc/motd"}
FsWriteIdx == {2, 5}
FsWriteOffs == {0, 1, 3}
FsBufs == { << 1 >>, << 2, 3 >> }
FsReadIdx == {1, 2, 5}
FsReadOffs == {0, 2, 30}
FsReadLens == {0, 2, 40}

\* the writes made to "a" since it was created
Hist == IF last.outcome = "boot" THEN << >> ELSE last.hist

FsCall(op, name, idx, off, buf, len, ok, n, bytes, hist) ==
    [outcome |-> "fs", op |-> op, name |-> name, idx |-> idx, off |-> off,
     buf |-> buf, len |-> len, ok |-> ok, n |-> n, bytes |-> bytes, hist |-> hist]

FsStep(call, fs) ==
    /\ files' = fs
    /\ last' = call
    /\ UNCHANGED << fdt, fd_path, mem, USER_BRK, stie, tf, sscratch, ticks, kstate, held, kfn >>

FsCreate ==
    \E name \in FsNames :
        /\ kstate = "user"
        /\ LET c == create_file(files, name)
           IN  FsStep(FsCall("create", name, c.idx, 0, << >>, 0, TRUE, 0, << >>,
                             IF name = "a" THEN << >> ELSE Hist), c.files)

FsWrite ==
    \E idx \in FsWriteIdx, off \in FsWriteOffs, buf \in FsBufs :
        /\ kstate = "user"
        /\ Len(Hist) < MaxWrites
        /\ LET w == write_file(files, idx, off, buf)
           IN  FsStep(FsCall("write", "", idx, off, buf, Len(buf), w.ok, w.n, << >>,
                             IF w.ok THEN Append(Hist, [off |-> off, buf |-> buf])
                             ELSE Hist), w.files)

FsRead ==
    \E idx \in FsReadIdx, off \in FsReadOffs, len \in FsReadLens :
        /\ kstate = "user"
        /\ LET r == read_file(files, idx, off, len)
           IN  FsStep(FsCall("read", "", idx, off, << >>, len, r.ok, r.n, r.bytes, Hist),
                      files)

FsSize ==
    \E idx \in FsReadIdx :
        /\ kstate = "user"
        /\ LET sz == file_size(files, idx)
           IN  FsStep(FsCall("size", "", idx, 0, << >>, 0, sz # -1, sz, << >>, Hist), files)

NextFs ==
    \/ FsCreate
    \/ FsWrite
    \/ FsRead
    \/ FsSize

SpecFs == Init /\ [][NextFs]_vars

\* a step of SpecFs applied the function op
Applied(op) == last'.outcome = "fs" /\ last'.op = op

RECURSIVE MaxEnd(_, _)
\* the largest off + |buf| among the first n writes of h
MaxEnd(h, n) ==
    IF n = 0 THEN 0 ELSE Max(h[n].off + Len(h[n].buf), MaxEnd(h, n - 1))

RECURSIVE OverlayAt(_, _, _)
\* byte i (from 1) of a zero-filled array after the first n writes of h
OverlayAt(h, n, i) ==
    IF n = 0 THEN 0
    ELSE IF i > h[n].off /\ i <= h[n].off + Len(h[n].buf) THEN h[n].buf[i - h[n].off]
    ELSE OverlayAt(h, n - 1, i)

\* C15: after a sequence of write_file(idx, off_i, buf_i) applied to an
\* empty writable file, the file length is max(off_i + |buf_i|) and reading
\* from offset 0 returns the writes applied in order onto a zero-filled
\* array of that length; each write returns |buf_i| and never shortens the
\* file.
C15_WritesOverlayZeroFilled ==
    /\ [](Position(files, "a") # -1 =>
            LET idx == Position(files, "a")
                n == MaxEnd(Hist, Len(Hist))
            IN  /\ file_size(files, idx) = n
                /\ read_file(files, idx, 0, n).bytes =
                       [i \in 1..n |-> OverlayAt(Hist, Len(Hist), i)])
    /\ [][Applied("write") /\ last'.idx < Len(files) =>
              /\ last'.ok /\ last'.n = Len(last'.buf)
              /\ Len(files'[last'.idx + 1].data) >= Len(files[last'.idx + 1].data)]_vars

\* a write past the end left a zero-filled gap and a later write went below it
C15_Witness ==
    /\ last.outcome = "fs" /\ Len(Hist) = 2
    /\ Hist[1].off = 3 /\ Hist[2].off = 0 /\ Hist[2].buf = << 2, 3 >>
    /\ files[Position(files, "a") + 1].data = << 2, 3, 0, 1 >>

\* C16: read_file(idx, offset, buf) on an existing index returns
\* n = min(|buf|, len(data) - offset) when offset < len(data) and 0 when
\* offset >= len(data), fills buf[0..n) with data[offset..offset+n) and
\* changes no file; an index that is not in the writable list yields an
\* error from read_file, write_file and file_size.
C16_ReadFileReturnsSlice ==
    [][/\ Applied("read") /\ last'.idx < Len(files) =>
              LET data == files[last'.idx + 1].data
                  n == IF last'.off < Len(data)
                       THEN Min(last'.len, Len(data) - last'.off) ELSE 0
              IN  /\ last'.ok /\ last'.n = n
                  /\ last'.bytes = SubSeq(data, last'.off + 1, last'.off + n)
                  /\ files' = files
       /\ (Applied("read") \/ Applied("write") \/ Applied("size"))
              /\ last'.idx >= Len(files) =>
              ~last'.ok /\ files' = files]_vars

\* a read of 40 bytes at offset 2 of the 23 bytes of etc/motd returned 21
C16_Witness ==
    /\ last.outcome = "fs" /\ last.op = "read" /\ last.idx = 1
    /\ last.off = 2 /\ last.len = 40 /\ last.n = 21

\* C17: create_file(name) always succeeds: if the name exists it returns
\* the existing index and afterwards that file has size 0 and mode 0o600;
\* otherwise it appends a new empty record with mode 0o600 and returns its
\* index; in both cases every other record's name, data and mode are
\* unchanged.
C17_CreateFileTruncatesOrAppends ==
    [][Applied("create") =>
          LET idx == Position(files, last'.name)
              fresh == [name |-> last'.name, data |-> << >>, mode |-> 384]
          IN  /\ last'.ok
              /\ IF idx # -1
                 THEN /\ last'.idx = idx
                      /\ Len(files') = Len(files)
                      /\ files'[idx + 1] = fresh
                      /\ file_size(files', idx) = 0
                      /\ \A j \in 1..Len(files) : j # idx + 1 => files'[j] = files[j]
                 ELSE /\ last'.idx = Len(files)
                      /\ files' = Append(files, fresh)]_vars

\* the existing file etc/motd was created again, next to a written file
C17_Witness ==
    /\ last.outcome = "fs" /\ last.op = "create" /\ last.name = "etc/motd"
    /\ last.idx = 1 /\ files[2].data = << >> /\ files[2].mode = 384
    /\ Len(files) = 3 /\ Len(files[3].data) > 0

\* the descriptor fd of tbl denotes a record that is there
Live(fs, tbl, fd) ==
    tbl[fd].file_type.kind = "ReadOnly" \/ tbl[fd].file_type.idx < Len(fs)

\* C18: lseek(fd, offset, whence) on an open descriptor sets and returns
\* the new offset: offset for whence 0, the current offset + offset for
\* whence 1, the file length + offset for whence 2, the offset being
\* signed; a negative result or any other whence returns usize::MAX and
\* leaves the descriptor's offset unchanged (so that
\* lseek(fd, lseek(fd, 0, SEEK_CUR), SEEK_SET) leaves the offset unchanged).
\* The frame keeps offset and whence in a1 and a2; the length of a file
\* is only asked for where the descriptor's record is there.
C18_LseekSetsAndReturnsOffset ==
    [][Running /\ last'.nr = NR_LSEEK /\ last'.outcome = "ret" =>
          \A fd \in SeekFds :
              fdt[fd].in_use /\ (tf'.a2 = 2 => Live(files, fdt, fd)) =>
                  LET target == SeekTarget(fd, tf'.a1, tf'.a2) IN
                  IF target >= 0
                  THEN tf'.a0 = target /\ fdt'[fd].offset = target
                  ELSE tf'.a0 = USIZE_MAX /\ fdt'[fd].offset = fdt[fd].offset]_vars

(***************************************************************************)
(* The program break.  SpecBrk follows the shell growing and shrinking     *)
(* its heap between two execs; last records the request and the result.   *)
(***************************************************************************)
\* the most frames the heap is followed taking from the user pool
MaxHeapFrames == 5

\* the first page above the shell's image, where its heap starts
HEAP_VA == SHELL_ENTRY + PAGE_SIZE
HeapReqs == {0, HEAP_VA, HEAP_VA + 8, HEAP_VA + PAGE_SIZE, HEAP_VA + 2 * PAGE_SIZE}

\* a brk that asks for as many pages as the user pool has
POOL_REQ == HEAP_VA + (USER_PA_POOL_END_PN - USER_PA_POOL_START_PN) * PAGE_SIZE

\* the trap of brk(req) with result r
BrkCall(req, r) ==
    /\ r.outcome = "ret"
    /\ mem' = r.k.mem
    /\ USER_BRK' = r.k.brk
    /\ LET x == trap_exit(r.tf, trap_entry(tf, sscratch).ksp) IN
       tf' = x.regs /\ sscratch' = x.sscratch
    /\ last' = [nr |-> NR_BRK, a0 |-> req, ret |-> r.tf.a0, outcome |-> "ret"]
    /\ UNCHANGED << files, fdt, fd_path, stie, ticks, kstate, held, kfn >>

Brk ==
    \E req \in HeapReqs :
        /\ kstate = "user"
        /\ LET r == sys_brk(K, Frame(SHELL_ENTRY, NR_BRK, req, 0, 0))
           IN  r.k.mem.next <= BootLoad.m.next + MaxHeapFrames /\ BrkCall(req, r)

\* one large request, made while the heap is still small
BrkPool ==
    \E req \in {POOL_REQ} :
        /\ kstate = "user"
        /\ mem.next <= BootLoad.m.next + MaxHeapFrames
        /\ BrkCall(req, sys_brk(K, Frame(SHELL_ENTRY, NR_BRK, req, 0, 0)))

NextBrk ==
    \/ Brk
    \/ BrkPool

SpecBrk == Init /\ [][NextBrk]_vars

\* the pages of [page_up(lo), page_up(hi))
PagesBetween(lo, hi) == (PageUp(lo) \div PAGE_SIZE) .. ((PageUp(hi) \div PAGE_SIZE) - 1)

\* C19: brk(0) returns the current break and changes nothing; brk(k) with
\* k # 0 records k as the break and returns k, and when k is above the
\* current break it maps exactly the pages of [page_up(old), page_up(k)),
\* each to one freshly allocated frame with flags V|U|R|W|A|D; so brk(0)
\* after brk(k) returns k, and a second brk(k) allocates and maps nothing.
C19_BrkRecordsAndMaps ==
    [][last'.outcome = "ret" /\ last'.nr = NR_BRK =>
          LET req == last'.a0
              new == PagesBetween(USER_BRK, req)
          IN  IF req = 0
              THEN last'.ret = USER_BRK /\ USER_BRK' = USER_BRK /\ mem' = mem
              ELSE /\ last'.ret = req
                   /\ USER_BRK' = req
                   /\ IF req > USER_BRK
                      THEN /\ \A pg \in new :
                                /\ FrameOf(mem', pg) \in mem.next .. (mem'.next - 1)
                                /\ Translate(mem', pg) =
                                       PTE_V + PTE_U + PTE_R + PTE_W + PTE_A + PTE_D
                           /\ Cardinality({ FrameOf(mem', pg) : pg \in new }) =
                                  Cardinality(new)
                           /\ mem'.next = mem.next + Cardinality(new)
                           /\ \A pg \in UserPageRange \ new :
                                /\ FrameOf(mem', pg) = FrameOf(mem, pg)
                                /\ Translate(mem', pg) = Translate(mem, pg)
                      ELSE mem' = mem]_vars

\* the first brk of the shell took two pages at once
C19_Witness ==
    /\ last.outcome = "ret" /\ last.nr = NR_BRK
    /\ last.ret = HEAP_VA + 2 * PAGE_SIZE /\ USER_BRK = HEAP_VA + 2 * PAGE_SIZE
    /\ mem.next = BootLoad.m.next + 2
    /\ FrameOf(mem, HEAP_VA \div PAGE_SIZE) = BootLoad.m.next
    /\ FrameOf(mem, (HEAP_VA \div PAGE_SIZE) + 1) = BootLoad.m.next + 1

\* the pages of the shell's heap the model follows
HeapPages == (HEAP_VA \div PAGE_SIZE) .. ((HEAP_VA \div PAGE_SIZE) + 2)

\* C20: between two execs a heap page that brk has mapped keeps its
\* physical frame: no later brk, in particular no shrink followed by a
\* grow, changes the frame a mapped heap address translates to.
C20_HeapPageKeepsFrame ==
    [][\A pg \in HeapPages :
           FrameOf(mem, pg) # -1 => FrameOf(mem', pg) = FrameOf(mem, pg)]_vars

\* C21: every frame alloc_user_page returns, after any sequence of loader
\* and brk allocations, is page-aligned, lies in
\* [USER_PA_POOL_START, USER_PA_POOL_END) and differs from every other
\* frame returned since the last pool reset.  Frames are page numbers, the
\* frames returned since the reset are those from the pool start up to the
\* cursor, and a step without a reset hands out those from the old cursor
\* up to the new one.
C21_FramesInsidePool ==
    /\ [](USER_PA_POOL_START_PN <= mem.next /\ mem.next <= USER_PA_POOL_END_PN)
    /\ [][mem'.next >= mem.next]_vars

\* the pages of the PT_LOAD segment ph
SegPages(ph) ==
    IF ph.p_type # PT_LOAD \/ ph.p_memsz = 0 THEN {}
    ELSE (ph.p_vaddr \div PAGE_SIZE) .. ((ph.p_vaddr + ph.p_memsz - 1) \div PAGE_SIZE)

\* the pages of the user stack region
StackPages ==
    ((USER_STACK_TOP_VA - USER_STACK_BYTES) \div PAGE_SIZE) ..
    ((USER_STACK_TOP_VA \div PAGE_SIZE) - 1)

\* the image among those of the model whose entry point is entry
ImageAt(entry) == CHOOSE image \in {ShellElf, ProgElf} : ElfParse(image).entry = entry

\* the pages a load of image maps, and how many pages it maps, segment by
\* segment and then the stack
ImagePages(image) ==
    StackPages \cup UNION { SegPages(ElfParse(image).phdrs[i]) :
                              i \in 1..Len(ElfParse(image).phdrs) }

RECURSIVE PagesMapped(_, _)
PagesMapped(phdrs, i) ==
    IF i > Len(phdrs) THEN Cardinality(StackPages)
    ELSE Cardinality(SegPages(phdrs[i])) + PagesMapped(phdrs, i + 1)

\* the last trap was an exec, execv or exit
Reloaded(l) == l.nr \in ExecNrs \cup {NR_EXIT}

Lock(mutex) == [op |-> "lock", on |-> mutex]
Unlock(mutex) == [op |-> "unlock", on |-> mutex]
Do(what) == [op |-> "do", on |-> what]

\* a function of fs.rs: `let files = WRITABLE_FILES.lock();`, its body, and
\* the drop of the guard at its end
fs_locked(body) == << Lock("WRITABLE_FILES"), Do(body), Unlock("WRITABLE_FILES") >>

\* an fd_* function of trap.rs, and the block of sys_exit: FD_TABLE.lock(),
\* the body, the drop of the guard
fd_locked(body) == << Lock("FD_TABLE"), Do(body), Unlock("FD_TABLE") >>

\* what the ELF loader and the page-table engine do
Engine == {"enable_sv39", "reset_user_pages", "clear_user_mappings", "load_user_elf",
           "alloc_user_page", "map_4k"}

\* main.rs rust_start(): the page tables, the writable layer, shell.elf
rust_start_steps ==
    << Do("enable_sv39") >> \o fs_locked("init_writable_fs")
    \o fs_locked("get_file_data") \o << Do("load_user_elf") >>

\* a faulty variant of load_program that borrows the file bytes instead of
\* copying them and so keeps the guard until the loader is done
load_program_borrowing(found) ==
    << Lock("WRITABLE_FILES"), Do("get_file_data") >>
    \o (IF found THEN << Do("reset_user_pages"), Do("clear_user_mappings"),
                         Do("load_user_elf") >>
        ELSE << >>)
    \o << Unlock("WRITABLE_FILES") >>

\* trap.rs load_program(): the copy of the file under the lock, then the
\* reset, the clearing and the loader when the file was found
load_program_steps(found) ==
    fs_locked("get_file_data")
    \o (IF found THEN << Do("reset_user_pages"), Do("clear_user_mappings"),
                         Do("load_user_elf") >>
        ELSE << >>)

\* the branches of the syscall handlers of trap.rs, each the functions it
\* calls in order
Handlers ==
    { [fn |-> "sys_exit", todo |-> fd_locked("clear") \o load_program_steps(found)] :
          found \in BOOLEAN }
    \cup { [fn |-> "sys_exec", todo |-> load_program_steps(found)] : found \in BOOLEAN }
    \cup { [fn |-> "sys_execv", todo |-> load_program_steps(found)] : found \in BOOLEAN }
    \cup { [fn |-> "sys_open", todo |-> fs_locked("lookup_writable") \o t] :
              t \in { << >>, fd_locked("fd_alloc") } }
    \cup { [fn |-> "sys_read", todo |-> fd_locked("fd_get") \o t] :
              t \in { << >>, fd_locked("fd_advance"), fs_locked("read_file"),
                      fs_locked("read_file") \o fd_locked("fd_advance") } }
    \cup { [fn |-> "sys_write_fd", todo |-> fd_locked("fd_get") \o t] :
              t \in { << >>, fs_locked("write_file"),
                      fs_locked("write_file") \o fd_locked("fd_advance") } }
    \cup { [fn |-> "sys_close", todo |-> fd_locked("fd_close")] }
    \cup { [fn |-> "sys_lseek", todo |-> fd_locked("fd_get") \o t] :
              t \in { << >>, fs_locked("file_size"), fd_locked("fd_seek"),
                      fs_locked("file_size") \o fd_locked("fd_seek") } }
    \cup { [fn |-> "sys_brk", todo |-> t] :
              t \in { << >>, << Do("alloc_user_page"), Do("map_4k") >>,
                      << Do("alloc_user_page"), Do("map_4k"),
                         Do("alloc_user_page"), Do("map_4k") >> } }
    \cup { [fn |-> "sys_creat", todo |-> fs_locked("create_file") \o t] :
              t \in { << >>, fd_locked("fd_alloc") } }
    \cup { [fn |-> "sys_unlink", todo |-> fs_locked("unlink_file")] }
    \cup { [fn |-> "sys_stat", todo |-> fs_locked("stat_file")] }
    \cup { [fn |-> "sys_chmod", todo |-> fs_locked("chmod_file")] }
    \cup { [fn |-> "sys_readdir", todo |-> fs_locked("list_writable_files")] }

\* the reset vector: nothing is locked, nothing is loaded, rust_start runs
InitBoot ==
    /\ files = << >>
    /\ fdt = [fd \in 0..(MAX_FD - 1) |-> EMPTY]
    /\ fd_path = [fd \in 0..(MAX_FD - 1) |-> ""]
    /\ mem = EmptyMem
    /\ USER_BRK = 0
    /\ stie = FALSE
    /\ tf = [r \in {"sepc", "sp", "a0", "a1", "a2", "a3", "a4", "a5", "a6", "a7", "ra",
                    "t0", "t1", "t2", "t3", "t4", "t5", "t6"} |-> 0]
    /\ sscratch = 0
    /\ ticks = TICKS
    /\ last = [nr |-> 0, sepc |-> 0, outcome |-> "reset"]
    /\ kstate = "boot"
    /\ held = {}
    /\ kfn = [fn |-> "rust_start", todo |-> rust_start_steps]

KernelStep(op) ==
    /\ kfn.todo # << >>
    /\ Head(kfn.todo).op = op
    /\ kfn' = [kfn EXCEPT !.todo = Tail(@)]
    /\ UNCHANGED << files, fdt, fd_path, mem, USER_BRK, stie, tf, sscratch, ticks, last,
                    kstate >>

\* spin::Mutex::lock(): spins until the mutex is free, then takes it
Acquire ==
    /\ KernelStep("lock")
    /\ Head(kfn.todo).on \notin held
    /\ held' = held \cup {Head(kfn.todo).on}

\* the guard is dropped
Release ==
    /\ KernelStep("unlock")
    /\ held' = held \ {Head(kfn.todo).on}

\* the body of a function, or a call into the loader or the page tables
Work ==
    /\ KernelStep("do")
    /\ UNCHANGED held

\* rust_start() has loaded the shell and enters user mode
EnterUser ==
    /\ kfn = [fn |-> "rust_start", todo |-> << >>]
    /\ files' = init_writable_fs
    /\ mem' = BootLoad.m
    /\ USER_BRK' = BootLoad.img.brk
    /\ stie' = TRUE
    /\ tf' = [tf EXCEPT !.sepc = BootLoad.img.entry_va, !.sp = BootLoad.img.user_sp,
                        !.a0 = BootLoad.img.argc, !.a1 = BootLoad.img.argv_va,
                        !.a2 = BootLoad.img.envp_va]
    /\ sscratch' = KTRAP_STACK_TOP
    /\ last' = [nr |-> 0, sepc |-> 0, outcome |-> "boot", err |-> "Ok",
                img |-> BootLoad.img, csr |-> BootLoad.csr, touch |-> {},
                stack |-> BootLoad.stack]
    /\ kstate' = "user"
    /\ kfn' = UserCode
    /\ UNCHANGED << fdt, fd_path, ticks, held >>

\* an ecall: rust_trap calls a handler
Ecall ==
    \E h \in Handlers :
        /\ kstate = "user"
        /\ kfn = UserCode
        /\ kfn' = h
        /\ UNCHANGED << files, fdt, fd_path, mem, USER_BRK, stie, tf, sscratch, ticks,
                        last, kstate, held >>

\* the handler returns and __trap_entry goes back to user mode
Sret ==
    /\ kfn.fn \notin {"user", "rust_start"}
    /\ kfn.todo = << >>
    /\ kfn' = UserCode
    /\ UNCHANGED << files, fdt, fd_path, mem, USER_BRK, stie, tf, sscratch, ticks, last,
                    kstate, held >>

NextLock ==
    \/ Acquire
    \/ Release
    \/ Work
    \/ EnterUser
    \/ Ecall
    \/ Sret

SpecLock == InitBoot /\ [][NextLock]_vars

\* the kernel is about to run the loader or to change the page tables
AtEngine == kfn.todo # << >> /\ Head(kfn.todo).op = "do" /\ Head(kfn.todo).on \in Engine

\* C23: wherever the ELF loader or the page-table engine runs (boot, exec,
\* exit, brk) the filesystem mutex is free; exec copies the file bytes under
\* the lock and has released it before it clears the mappings and loads;
\* and the filesystem mutex and the FD-table mutex are never held together.
C23_LoaderRunsUnlocked ==
    /\ AtEngine => "WRITABLE_FILES" \notin held
    /\ (kfn.todo # << >> /\ Head(kfn.todo) = Do("get_file_data"))
           => "WRITABLE_FILES" \in held
    /\ held # {"WRITABLE_FILES", "FD_TABLE"}

\* exit has cleared the descriptor table and copied shell.elf and is about
\* to reset the user pool with both mutexes free
C23_Witness ==
    /\ kfn.fn = "sys_exit"
    /\ kfn.todo # << >>
    /\ Head(kfn.todo) = Do("reset_user_pages")
    /\ held = {}
    /\ kstate = "user"

(***************************************************************************)
(* The loader on its own.  SpecLoad applies load_user_elf, as load_program *)
(* calls it (user pool reset, user mappings cleared), to images, argument  *)
(* vectors and environments from the menus below and records the call and  *)
(* its result in last.  A frame holds, where the loader did not write, the *)
(* bytes an earlier program left: one of the StaleBytes.                   *)
(***************************************************************************)
\* the file bytes of a segment: n bytes from base + 1 on, none of them zero
SegData(base, n) == [i \in 1..n |-> base + i]

\* an image with the PT_LOAD segments segs ([vaddr, filesz, memsz, flags]),
\* the file bytes of segment i being SegData(16 * i, filesz)
ElfOf(segs) ==
    LET data0 == EHDR_SIZE + PHDR_SIZE * Len(segs)
        off(i) == data0 + (IF i = 1 THEN 0 ELSE segs[1].filesz)
    IN  ElfHeader(127, ELFCLASS64, ELFDATA2LSB, EM_RISCV, segs[1].vaddr, Len(segs))
        \o ElfPhdr(PT_LOAD, segs[1].flags, off(1), segs[1].vaddr, segs[1].filesz,
                   segs[1].memsz)
        \o (IF Len(segs) = 2
            THEN ElfPhdr(PT_LOAD, segs[2].flags, off(2), segs[2].vaddr, segs[2].filesz,
                         segs[2].memsz)
            ELSE << >>)
        \o SegData(16, segs[1].filesz)
        \o (IF Len(segs) = 2 THEN SegData(32, segs[2].filesz) ELSE << >>)

\* first segments: at the start of a page or 6 bytes before its end; all
\* file bytes, a zero tail, only zeros, a tail that runs into the next page
FirstSegs ==
    { [vaddr |-> PROG_ENTRY + head, filesz |-> sz[1], memsz |-> sz[2], flags |-> 5] :
        head \in {0, PAGE_SIZE - 6},
        sz \in { << 0, 4 >>, << 4, 4 >>, << 4, 8 >>, << 8, 12 >>, << 4, PAGE_SIZE + 4 >> } }

\* second segments: in the page the first one starts in, or two pages on
SecondSegs ==
    { [vaddr |-> PROG_ENTRY + at, filesz |-> 4, memsz |-> 8, flags |-> 6] :
        at \in {64, 2 * PAGE_SIZE} }

LoadImages ==
    { ElfOf(<< s1 >>) : s1 \in FirstSegs }
    \cup { ElfOf(<< s1, s2 >>) : s1 \in FirstSegs, s2 \in SecondSegs }

\* argument vectors and environments: none, one, a few strings of several
\* lengths, and as many equal strings as the counts say
StringCounts == {16, 17, 32, 33}
LoadArgvs ==
    { << >>, << "shell" >>, << "ls", "-l", "etc" >> }
    \cup { Repeat("a", n) : n \in StringCounts }
LoadEnvps ==
    { << >>, << "PATH=/" >>, << "A=1", "HOME=/root" >> }
    \cup { Repeat("E=1", n) : n \in StringCounts }

StaleBytes == {0, 255}

\* images the loader refuses: a bad magic number, and a second segment
\* whose file bytes end past the image, after a first one that is in order
LoadBadImages ==
    { << 0 >> \o SubSeq(ProgElf, 2, Len(ProgElf)),
      ElfHeader(127, ELFCLASS64, ELFDATA2LSB, EM_RISCV, PROG_ENTRY, 2)
      \o ElfPhdr(PT_LOAD, 5, EHDR_SIZE + 2 * PHDR_SIZE, PROG_ENTRY, 4, 4)
      \o ElfPhdr(PT_LOAD, 6, EHDR_SIZE + 2 * PHDR_SIZE + 4, PROG_ENTRY + PAGE_SIZE, 8, 8)
      \o << 115, 0, 0, 0 >> }

LoadInputs ==
    { [image |-> image, argv |-> << "prog" >>, envp |-> << "PATH=/" >>] :
        image \in LoadImages \cup LoadBadImages }
    \cup { [image |-> ProgElf, argv |-> argv, envp |-> envp] :
             argv \in LoadArgvs, envp \in LoadEnvps }

\* one call of load_user_elf.  The result depends on the arguments and on
\* the page tables, which SpecLoad leaves as boot made them, so a behaviour
\* makes the call once
LoadElf ==
    \E inp \in LoadInputs, stale \in StaleBytes :
        /\ kstate = "user"
        /\ last.outcome = "boot"
        /\ LET r == load_user_elf(clear_user_mappings(reset_user_pages(mem)), stie,
                                  inp.image, USER_STACK_TOP_VA, USER_STACK_BYTES,
                                  inp.argv, inp.envp)
           IN  last' = [nr |-> NR_EXECV, outcome |-> "loaded", image |-> inp.image,
                        argv |-> inp.argv, envp |-> inp.envp, stale |-> stale,
                        err |-> r.err, img |-> r.img, m |-> r.m, frames |-> r.frames,
                        stack |-> r.stack]
        /\ UNCHANGED << files, fdt, fd_path, mem, USER_BRK, stie, tf, sscratch, ticks,
                        kstate, held, kfn >>

NextLoad == LoadElf

SpecLoad == Init /\ [][NextLoad]_vars

\* the last step was a call of the loader that returned Ok
Loaded == last.outcome = "loaded" /\ last.err = "Ok"

\* the PT_LOAD segments of the image l.image that take memory
LoadSegs(l) ==
    { ph \in { ElfParse(l.image).phdrs[i] : i \in 1..Len(ElfParse(l.image).phdrs) } :
        ph.p_type = PT_LOAD /\ ph.p_memsz > 0 }

\* the byte user mode reads at va after the load l: the page tables give
\* the frame, the last write of the loader to that byte of the frame gives
\* the value; -1 where nothing is mapped
UserByte(l, va) ==
    LET pn == FrameOf(l.m, va \div PAGE_SIZE)
        off == va % PAGE_SIZE
        hits == { j \in 1..Len(l.frames) :
                    /\ l.frames[j].pn = pn
                    /\ l.frames[j].off <= off
                    /\ off < l.frames[j].off + l.frames[j].len }
    IN  IF pn = -1 THEN -1
        ELSE IF hits = {} THEN l.stale
        ELSE LET w == l.frames[CHOOSE j \in hits : \A h \in hits : h <= j] IN
             IF w.src = -1 THEN 0 ELSE l.image[w.src + (off - w.off) + 1]

\* C24: after a successful load, user memory holds, for every PT_LOAD
\* segment with p_memsz > 0, the file bytes image[p_offset + i] at
\* p_vaddr + i for i < p_filesz and zero for p_filesz <= i < p_memsz, also
\* when two segments fall in the same 4 KiB page.
C24_SegmentsLoaded ==
    Loaded =>
        \A ph \in LoadSegs(last) :
            \A i \in 0..(ph.p_memsz - 1) :
                UserByte(last, ph.p_vaddr + i) =
                    IF i < ph.p_filesz THEN last.image[ph.p_offset + i + 1] ELSE 0

\* the last store of the load l into the user stack that covers the byte
\* at va (its index in l.stack), 0 when there is none
LastStore(l, va) ==
    LET hits == { j \in 1..Len(l.stack) :
                    l.stack[j].va <= va /\ va < l.stack[j].va + l.stack[j].len }
    IN  IF hits = {} THEN 0 ELSE CHOOSE j \in hits : \A h \in hits : h <= j

\* the byte at va, -1 when the loader left no plain byte there
StackByte(l, va) ==
    LET j == LastStore(l, va) IN
    IF j = 0 THEN -1
    ELSE IF l.stack[j].kind # "bytes" THEN -1
    ELSE l.stack[j].data[va - l.stack[j].va + 1]

\* the 8-byte little-endian word at va, -1 when a byte of it is missing
WordAt(l, va) ==
    IF \E k \in 0..7 : StackByte(l, va + k) = -1 THEN -1
    ELSE LEAt([k \in 1..8 |-> StackByte(l, va + k - 1)], 0, 8)

\* user memory holds the bytes of str and then a NUL at va
CstrAt(l, va, str) ==
    /\ va > 0
    /\ StackByte(l, va + Len(str)) = 0
    /\ \A k \in 0..(Len(str) - 1) :
          /\ LastStore(l, va + k) # 0
          /\ l.stack[LastStore(l, va + k)].kind = "str"
          /\ l.stack[LastStore(l, va + k)].va = va
          /\ l.stack[LastStore(l, va + k)].data = str

\* C25: after a successful load with n argv strings and m envp strings the
\* word at argv_va + 8 i points to a NUL-terminated copy of argv[i] and the
\* word at argv_va + 8 n is 0; envp_va = argv_va + 8 (n + 1), the word at
\* envp_va + 8 j points to a copy of envp[j] and the word at envp_va + 8 m
\* is 0; argc = n is stored at argv_va - 8; user_sp is 16-byte aligned and
\* at most argv_va - 8; every store lies in the mapped stack region below
\* the stack top.
C25_StackLayout ==
    Loaded =>
        LET n == Len(last.argv)
            m == Len(last.envp)
            argv_va == last.img.argv_va
            envp_va == last.img.envp_va
        IN  /\ last.img.argc = n
            /\ \A i \in 0..(n - 1) :
                  CstrAt(last, WordAt(last, argv_va + 8 * i), last.argv[i + 1])
            /\ WordAt(last, argv_va + 8 * n) = 0
            /\ envp_va = argv_va + 8 * (n + 1)
            /\ \A j \in 0..(m - 1) :
                  CstrAt(last, WordAt(last, envp_va + 8 * j), last.envp[j + 1])
            /\ WordAt(last, envp_va + 8 * m) = 0
            /\ WordAt(last, argv_va - 8) = n
            /\ last.img.user_sp % 16 = 0
            /\ last.img.user_sp <= argv_va - 8
            /\ \A j \in 1..Len(last.stack) :
                  /\ USER_STACK_TOP_VA - USER_STACK_BYTES <= last.stack[j].va
                  /\ last.stack[j].va + last.stack[j].len <= USER_STACK_TOP_VA
                  /\ CanAccess(last.m, last.stack[j].va, last.stack[j].len, PTE_W)

\* a program was loaded with three arguments and two environment strings
C25_Witness ==
    /\ Loaded
    /\ last.argv = << "ls", "-l", "etc" >>
    /\ last.envp = << "A=1", "HOME=/root" >>
    /\ last.img.argc = 3
    /\ WordAt(last, last.img.argv_va + 16) > last.img.envp_va

\* C26: the loader returns SegmentOverflow whenever argv and envp together
\* hold more than 32 strings, however the total is split between the two.
C26_OverflowOnTotal ==
    (last.outcome = "loaded" /\ Len(last.argv) + Len(last.envp) > PTR_VEC_CAP)
        => last.err = "SegmentOverflow"

(***************************************************************************)
(* map_4k on its own.  SpecMap applies map_4k to the page tables boot left *)
(* with pages, frames and flags from the menus below, one call a step.     *)
(***************************************************************************)
\* pages to map: a free page next to the shell's, the shell's code page, the
\* first page of a gigabyte no table exists for yet, and a page of the
\* kernel's identity-mapped DRAM
MapVas == { (USER_VA_BASE \div PAGE_SIZE) + 40, SHELL_ENTRY \div PAGE_SIZE,
            3 * 262144, DRAM_BASE_PN + 512 }
MapPas == { USER_PA_POOL_START_PN + 100, USER_PA_POOL_START_PN + 101 }
MapFlags == { URW, URX }

\* one call of map_4k; no further call once a PTE went outside the pool or
\* the pool ran out
Map4k ==
    \E va_pn \in MapVas, pa_pn \in MapPas, flags \in MapFlags :
        /\ kstate = "user"
        /\ ~mem.wild /\ ~mem.panic
        /\ mem' = map_4k(mem, va_pn, pa_pn, flags)
        /\ last' = [nr |-> 0, outcome |-> "map_4k", va |-> va_pn, pa |-> pa_pn,
                    flags |-> flags]
        /\ UNCHANGED << files, fdt, fd_path, USER_BRK, stie, tf, sscratch, ticks,
                        kstate, held, kfn >>

NextMap == Map4k

SpecMap == Init /\ [][NextMap]_vars

\* the L0 leaf the three-level walk for page va_pn ends at: its PPN and its
\* flag bits; PPN -1 when the walk does not end at an L0 leaf
LeafAt(m, va_pn) ==
    IF FrameOf(m, va_pn) = -1 THEN [ppn |-> -1, flags |-> 0]
    ELSE [ppn |-> FrameOf(m, va_pn), flags |-> Translate(m, va_pn)]

\* C27: for every page-aligned va and pa and all valid leaf flags, after
\* map_4k(root, va, pa, flags) the three-level walk for va ends at an L0
\* leaf with PPN pa >> 12 and flag bits flags; a later map_4k of the same va
\* replaces that leaf, and the leaves of all other pages stay as they were.
C27_Map4kInstallsLeaf ==
    [][last'.outcome = "map_4k"
         => /\ LeafAt(mem', last'.va) = [ppn |-> last'.pa, flags |-> last'.flags]
            /\ \A other \in (MapVas \cup UserPageRange) \ {last'.va} :
                  LeafAt(mem', other) = LeafAt(mem, other)]_vars

\* C28: when exit reloads the shell, the shell starts with the arguments it
\* has at boot: argc (a0) is 1, argv (a1) points to the one string "shell"
\* and the NULL after it.
C28_ExitReloadsShellArgs ==
    (last.nr = NR_EXIT /\ last.outcome = "ret" /\ last.err = "Ok")
        => /\ tf.a0 = 1
           /\ CstrAt(last, WordAt(last, tf.a1), "shell")
           /\ WordAt(last, tf.a1 + 8) = 0

(***************************************************************************)
(* The two pure conversions.  SpecPure applies pte_flags_from_pf to the    *)
(* p_flags values and vpn_indices to the page numbers of the menus below   *)
(* and records argument and result in last.                                *)
(***************************************************************************)
\* p_flags: every combination of PF_X, PF_W, PF_R, and with a bit above them
PfValues == 0..15

\* page numbers va >> 12 of addresses below 2^39: every combination of the
\* listed values of the three 9-bit fields
VpnFields == {0, 1, 255, 256, 511}
VaPages == { a * 262144 + b * 512 + c : a \in VpnFields, b \in VpnFields, c \in VpnFields }

Pure(call) ==
    /\ last' = call
    /\ UNCHANGED << files, fdt, fd_path, mem, USER_BRK, stie, tf, sscratch, ticks,
                    kstate, held, kfn >>

PteFlagsFromPf ==
    \E pf \in PfValues :
        /\ kstate = "user"
        /\ Pure([nr |-> 0, outcome |-> "pte_flags_from_pf", pf |-> pf,
                 flags |-> pte_flags_from_pf(pf)])

VpnIndices ==
    \E va_pn \in VaPages :
        /\ kstate = "user"
        /\ Pure([nr |-> 0, outcome |-> "vpn_indices", va_pn |-> va_pn,
                 idx |-> vpn_indices(va_pn)])

NextPure ==
    \/ PteFlagsFromPf
    \/ VpnIndices

SpecPure == Init /\ [][NextPure]_vars

\* C29: for every p_flags value, pte_flags_from_pf gives V, U and A, R
\* exactly when bit 4 (PF_R) is set, X exactly when bit 1 (PF_X) is set, W
\* and D exactly when bit 2 (PF_W) is set, and no other bit.
C29_PteFlagsFromPf ==
    last.outcome = "pte_flags_from_pf" =>
        /\ HasBit(last.flags, PTE_V) /\ HasBit(last.flags, PTE_U) /\ HasBit(last.flags, PTE_A)
        /\ HasBit(last.flags, PTE_R) <=> HasBit(last.pf, 4)
        /\ HasBit(last.flags, PTE_X) <=> HasBit(last.pf, 1)
        /\ HasBit(last.flags, PTE_W) <=> HasBit(last.pf, 2)
        /\ HasBit(last.flags, PTE_D) <=> HasBit(last.pf, 2)
        /\ ~HasBit(last.flags, PTE_G)
        /\ last.flags >= 0 /\ last.flags < 256

\* the flags of a readable and writable segment were computed
C29_Witness ==
    /\ last.outcome = "pte_flags_from_pf"
    /\ last.pf = 6
    /\ last.flags = PTE_V + PTE_R + PTE_W + PTE_U + PTE_A + PTE_D

\* C30: for every va below 2^39, vpn_indices gives three integers in
\* 0..511, in the order [VPN0, VPN1, VPN2], with
\* (VPN2 << 30) | (VPN1 << 21) | (VPN0 << 12) = va & ~0xFFF; in pages, with
\* VPN2 * 2^18 + VPN1 * 2^9 + VPN0 = va >> 12.
C30_VpnIndices ==
    last.outcome = "vpn_indices" =>
        /\ Len(last.idx) = 3
        /\ \A i \in 1..3 : last.idx[i] \in 0..511
        /\ last.idx[3] * 262144 + last.idx[2] * 512 + last.idx[1] = last.va_pn

\* the indices of an address with three different fields were computed
C30_Witness ==
    /\ last.outcome = "vpn_indices"
    /\ last.va_pn = 511 * 262144 + 256 * 512 + 1
    /\ last.idx = << 1, 256, 511 >>

(***************************************************************************)
(* The page-table pool over many programs.  SpecPool follows exit, exec    *)
(* and brk without a bound on PT_CUR: every load clears the user mappings  *)
(* and builds the tables of the user gigabyte again from fresh pool pages. *)
(***************************************************************************)
PoolBrkReqs == {0, SHELL_ENTRY + PAGE_SIZE + 8, SHELL_ENTRY + 3 * PAGE_SIZE}

\* the most frames one program takes from the user pool in this specification
MaxPoolFrames == 12

PoolExit ==
    \E pc \in {SHELL_ENTRY} :
        /\ UserAt(pc)
        /\ TrapStep(pc, NR_EXIT, sys_exit(K, Frame(pc, NR_EXIT, 0, 0, 0)))

PoolExec ==
    \E pc \in {SHELL_ENTRY}, path \in {"shell.elf", "nofile"} :
        /\ UserAt(pc)
        /\ TrapStep(pc, NR_EXEC, sys_exec(K, Frame(pc, NR_EXEC, BUF, 0, 0), path))

PoolBrk ==
    \E pc \in {SHELL_ENTRY}, req \in PoolBrkReqs :
        /\ UserAt(pc)
        /\ mem.next < USER_PA_POOL_START_PN + MaxPoolFrames
        /\ TrapStep(pc, NR_BRK, sys_brk(K, Frame(pc, NR_BRK, req, 0, 0)))

NextPool ==
    \/ PoolExit
    \/ PoolExec
    \/ PoolBrk

SpecPool == Init /\ [][NextPool]_vars

\* C31: no sequence of syscalls exhausts the 32-page page-table pool:
\* PT_CUR <= 32 in every reachable state, for brk and for any number of
\* exec/exit cycles, and the "Out of PT pages" panic is never reached.
C31_PtPoolNeverExhausted ==
    /\ mem.cur <= PT_POOL_LEN
    /\ ~mem.panic
    /\ last.outcome # "panic"

(***************************************************************************)
(* The addresses the loader and brk hand to map_4k.  p_vaddr is a 64-bit   *)
(* field of a file the user wrote and load_user_elf puts no limit on it;   *)
(* SpecWalk reads it as a page number and an offset in the page, so that   *)
(* addresses from 0x8000_0000 on, where the kernel's 2 MiB leaves are,     *)
(* can be followed.                                                        *)
(***************************************************************************)
\* the bytes of an ELF64 program header whose p_vaddr is page va_pn, offset
\* head
ElfPhdrAtPage(type, flags, offset, va_pn, head, filesz, memsz) ==
    LET vaddr == << head % 256, (head \div 256) + 16 * (va_pn % 16) >>
                 \o LE(va_pn \div 16, 6)
    IN  LE(type, 4) \o LE(flags, 4) \o LE(offset, 8) \o vaddr \o vaddr
        \o LE(filesz, 8) \o LE(memsz, 8) \o LE(PAGE_SIZE, 8)

\* program header i (0-based) with p_vaddr >> 12 and p_vaddr & 0xfff
PhdrPageAt(image, phoff, i) ==
    LET b == phoff + i * PHDR_SIZE IN
    [p_type |-> LEAt(image, b, 4), p_flags |-> LEAt(image, b + 4, 4),
     p_offset |-> LEAt(image, b + 8, 8),
     va_pn |-> LEAt(image, b + 17, 7) \div 16,
     head |-> image[b + 17] + 256 * (image[b + 18] % 16),
     p_filesz |-> LEAt(image, b + 32, 8), p_memsz |-> LEAt(image, b + 40, 8)]

RECURSIVE LoadSegmentPages(_, _, _)
\* the for loop of load_user_elf over the program headers, from header i
\* (0-based), as far as it maps pages: the memory it leaves
LoadSegmentPages(m, image, i) ==
    IF m.panic \/ m.wild \/ i >= LEAt(image, 56, 2) THEN m
    ELSE LET ph == PhdrPageAt(image, LEAt(image, 32, 8), i) IN
         IF ph.p_type # PT_LOAD THEN LoadSegmentPages(m, image, i + 1)
         ELSE IF ph.p_offset + ph.p_filesz > Len(image) THEN m
         ELSE IF ph.p_memsz = 0 THEN LoadSegmentPages(m, image, i + 1)
         ELSE LET vaend_pn == ph.va_pn + (ph.head + ph.p_memsz + PAGE_SIZE - 1) \div PAGE_SIZE
              IN  LoadSegmentPages(
                      MapSegmentPages(m, ph.va_pn, vaend_pn, pte_flags_from_pf(ph.p_flags)),
                      image, i + 1)

\* the pages of the segments of image, in the order the loader maps them
SegmentPagesOf(image) ==
    UNION { LET ph == PhdrPageAt(image, LEAt(image, 32, 8), i) IN
            IF ph.p_type = PT_LOAD /\ ph.p_memsz > 0
            THEN ph.va_pn .. (ph.va_pn + (ph.head + ph.p_memsz - 1) \div PAGE_SIZE)
            ELSE {} : i \in 0..(LEAt(image, 56, 2) - 1) }

\* images a user can write: one segment in the user gigabyte, in the
\* kernel's identity-mapped DRAM, or in a gigabyte nothing is mapped in
WalkPages ==
    { PROG_ENTRY \div PAGE_SIZE, PROG_ENTRY \div PAGE_SIZE + PAGES_2M,
      DRAM_BASE_PN + PAGES_2M, DRAM_BASE_PN + 3 * PAGES_2M + 7, 3 * 262144 }
\* p_flags: none, PF_R, PF_R|PF_X, PF_R|PF_W, and a bit that is none of the three
WalkFlags == {0, 4, 5, 6, 8}
WalkImages ==
    { ElfHeader(127, ELFCLASS64, ELFDATA2LSB, EM_RISCV, PROG_ENTRY, 1)
      \o ElfPhdrAtPage(PT_LOAD, fl, EHDR_SIZE + PHDR_SIZE, pn, head, 4, memsz)
      \o << 115, 0, 0, 0 >> :
        pn \in WalkPages, head \in {0, PAGE_SIZE - 6}, memsz \in {4, 8}, fl \in WalkFlags }

\* map_4k(root, va, ..) takes a leaf for a table on its way to va's L0 entry
WalksLeaf(m, va_pn) ==
    LET idx == vpn_indices(va_pn)
        p2 == PteAt(m, 0, idx[3])
    IN  /\ HasBit(p2.flags, PTE_V)
        /\ \/ IsLeaf(p2)
           \/ /\ PoolPageOf(p2) # -1
              /\ HasBit(PteAt(m, PoolPageOf(p2), idx[2]).flags, PTE_V)
              /\ IsLeaf(PteAt(m, PoolPageOf(p2), idx[2]))

\* load_program on a file that holds image: the page tables as the loader's
\* segment loop finds and leaves them
WalkLoad ==
    \E image \in WalkImages :
        /\ kstate = "user"
        /\ LET m0 == clear_user_mappings(reset_user_pages(mem)) IN
           last' = [nr |-> NR_EXEC, outcome |-> "mapped", image |-> image, m0 |-> m0,
                    m |-> LoadSegmentPages(m0, image, 0)]
        /\ UNCHANGED << files, fdt, fd_path, mem, USER_BRK, stie, tf, sscratch, ticks,
                        kstate, held, kfn >>

WalkBrk ==
    \E pc \in {SHELL_ENTRY}, req \in PoolBrkReqs :
        /\ UserAt(pc)
        /\ mem.next < USER_PA_POOL_START_PN + MaxPoolFrames
        /\ TrapStep(pc, NR_BRK, sys_brk(K, Frame(pc, NR_BRK, req, 0, 0)))

NextWalk ==
    \/ WalkLoad
    \/ WalkBrk

SpecWalk == Init /\ [][NextWalk]_vars

\* C32: map_4k never takes a leaf PTE for a pointer to a table: for every
\* page of the segments of a file the user wrote and for the page brk maps
\* next, the L2 and L1 entries on the way are invalid or tables (R=W=X=0),
\* and no PTE is written outside the page-table pool.
C32_NoLeafAsTable ==
    /\ ~mem.wild
    /\ ~WalksLeaf(mem, PageUp(USER_BRK) \div PAGE_SIZE)
    /\ last.outcome = "mapped" =>
           /\ \A pg \in SegmentPagesOf(last.image) : ~WalksLeaf(last.m0, pg)
           /\ ~last.m.wild

\* the valid PTEs of m that map user memory (U set), and those that point
\* to a page of the page-table pool
UserLeaves(m) ==
    { key \in DOMAIN m.pt :
        HasBit(m.pt[key].flags, PTE_V) /\ HasBit(m.pt[key].flags, PTE_U) }
TablePointers(m) ==
    { key \in DOMAIN m.pt :
        /\ HasBit(m.pt[key].flags, PTE_V)
        /\ ~HasBit(m.pt[key].flags, PTE_U)
        /\ PoolPageOf(m.pt[key]) # -1 }

\* every PTE of user memory is a leaf, every pointer to a table is none
WellFormed(m) ==
    /\ \A key \in UserLeaves(m) : IsLeaf(m.pt[key])
    /\ \A key \in TablePointers(m) : ~IsLeaf(m.pt[key])

\* C33: every valid leaf PTE installed for user memory (segments with any
\* p_flags, the stack, brk pages) has at least one of R, W, X set, and every
\* PTE that points to a table has R=W=X=0.
C33_LeavesHaveAccessBits ==
    /\ WellFormed(mem)
    /\ last.outcome = "mapped" => WellFormed(last.m)

(***************************************************************************)
(* Reading a file in pieces.  SpecRead opens etc/motd (from the writable   *)
(* layer, or from FILES once it was unlinked there), seeks and reads with  *)
(* buffers at the start of a page and 8 bytes before the end of one.  last *)
(* records a read's offset before it and the bytes it copied, and start    *)
(* and acc: where the descriptor stood after open or lseek and what the    *)
(* reads since then copied.                                                *)
(***************************************************************************)
RdFd == 3
RdLens == {5, 30}
RdBufs == {BUF, NEAR_END}
RdSeeks == {0, 20, 40}

\* the data of the file descriptor fd refers to
FdData(k, fd) ==
    IF k.fdt[fd].file_type.kind = "ReadOnly"
    THEN FILES[k.fdt[fd].file_type.idx + 1].data
    ELSE k.files[k.fdt[fd].file_type.idx + 1].data

\* trap.rs sys_read(), regular files: the bytes copy_to_user stores at buf
sys_read_copied(k, f) ==
    LET fd == f.a0
        buf == f.a1
        len == cap_to_page(buf, f.a2)
        g == fd_get(k.fdt, fd)
        u0 == NoUser(k.stie)
    IN  IF buf = 0 \/ f.a2 = 0 \/ fd \in {0, 1, 2} \/ ~g.ok THEN << >>
        ELSE IF g.e.file_type.kind = "ReadOnly"
        THEN LET data == FILES[g.e.file_type.idx + 1].data IN
             IF g.e.offset >= Len(data) THEN << >>
             ELSE LET chunk == SubSeq(data, g.e.offset + 1,
                                      g.e.offset + Min(len, Len(data) - g.e.offset))
                  IN  SubSeq(chunk, 1, copy_to_user(k.mem, u0, buf, Len(chunk)).n)
        ELSE LET r == read_file(k.files, g.e.file_type.idx, g.e.offset, Min(len, 4096)) IN
             IF ~r.ok THEN << >>
             ELSE SubSeq(r.bytes, 1, copy_to_user(k.mem, u0, buf, r.n).n)

\* a trap of SpecRead with frame f and result r; start and acc as they are
\* after it
RdStep(f, r, off0, bytes, start, acc) ==
    /\ r.outcome = "ret"
    /\ files' = r.k.files
    /\ fdt' = r.k.fdt
    /\ fd_path' = r.k.fd_path
    /\ LET x == trap_exit(r.tf, trap_entry(tf, sscratch).ksp) IN
       tf' = x.regs /\ sscratch' = x.sscratch
    /\ last' = [nr |-> f.a7, sepc |-> f.sepc, a0 |-> f.a0, a1 |-> f.a1, a2 |-> f.a2,
                outcome |-> r.outcome, ret |-> r.tf.a0, off0 |-> off0, bytes |-> bytes,
                start |-> start, acc |-> acc]
    /\ UNCHANGED << mem, USER_BRK, stie, ticks, kstate, held, kfn >>

RdOpen ==
    \E path \in {"etc/motd"} :
        /\ kstate = "user"
        /\ InUse(fdt) = {}
        /\ LET f == Frame(SHELL_ENTRY, NR_OPEN, STR, 0, 0)
           IN  RdStep(f, sys_open(K, f, path), 0, << >>, 0, << >>)

RdUnlink ==
    \E path \in {"etc/motd"} :
        /\ kstate = "user"
        /\ InUse(fdt) = {}
        /\ LET f == Frame(SHELL_ENTRY, NR_UNLINK, STR, 0, 0)
           IN  RdStep(f, sys_unlink(K, f, path), 0, << >>, 0, << >>)

RdSeek ==
    \E off \in RdSeeks :
        /\ kstate = "user"
        /\ RdFd \in InUse(fdt)
        /\ LET f == Frame(SHELL_ENTRY, NR_LSEEK, RdFd, off, 0)
               r == sys_lseek(K, f)
           IN  RdStep(f, r, fdt[RdFd].offset, << >>, r.k.fdt[RdFd].offset, << >>)

RdRead ==
    \E buf \in RdBufs, len \in RdLens :
        /\ kstate = "user"
        /\ RdFd \in InUse(fdt)
        /\ LET f == Frame(SHELL_ENTRY, NR_READ, RdFd, buf, len)
               got == sys_read_copied(K, f)
           IN  RdStep(f, sys_read(K, f, 0), fdt[RdFd].offset, got, last.start,
                      last.acc \o got)

RdClose ==
    /\ kstate = "user"
    /\ RdFd \in InUse(fdt)
    /\ LET f == Frame(SHELL_ENTRY, NR_CLOSE, RdFd, 0, 0)
       IN  RdStep(f, sys_close(K, f), 0, << >>, 0, << >>)

NextRead ==
    \/ RdOpen
    \/ RdUnlink
    \/ RdSeek
    \/ RdRead
    \/ RdClose

SpecRead == Init /\ [][NextRead]_vars

\* the last trap was a read through the descriptor
ReadDone == last.outcome = "ret" /\ last.nr = NR_READ

\* C34: successive reads on a regular-file descriptor return consecutive
\* chunks: a read returns n <= min(len, bytes to the end of buf's page,
\* bytes left in the file), copies data[offset .. offset + n) and advances
\* the offset by n; it returns 0 only when no byte is left, so the reads up
\* to a 0 yield the file's bytes from the starting offset on, in order,
\* none skipped or repeated, also across a cut at a page boundary.
C34_ReadsAreConsecutive ==
    ReadDone =>
        LET data == FdData(K, RdFd)
            n == last.ret
            left == Max(0, Len(data) - last.off0)
        IN  /\ n >= 0
            /\ n <= Min(last.a2, Min(PageEnd(last.a1) - last.a1, left))
            /\ n = 0 <=> left = 0
            /\ Len(last.bytes) = n
            /\ last.bytes = SubSeq(data, last.off0 + 1, last.off0 + n)
            /\ fdt[RdFd].offset = last.off0 + n
            /\ last.acc = SubSeq(data, last.start + 1, last.start + Len(last.acc))
            /\ fdt[RdFd].offset = last.start + Len(last.acc)
            /\ n = 0 => last.start + Len(last.acc) >= Len(data)

\* a read of 30 bytes into the last 8 bytes of a page was cut to 8, and the
\* next one went on where it stopped
C34_Witness ==
    /\ ReadDone
    /\ last.a1 = NEAR_END /\ last.a2 = 30
    /\ last.ret = 8
    /\ last.off0 = 8
    /\ last.start = 0
    /\ last.acc = SubSeq(ETC_MOTD, 1, 16)

(***************************************************************************)
(* The names of the writable layer.  SpecNames calls create_file,          *)
(* write_file, chmod_file and unlink_file in any order on what             *)
(* init_writable_fs left; last keeps the list as it was before the call.   *)
(***************************************************************************)
NmNames == {"a", "b", "etc/motd", "none"}
NmModes == {292}
NmWriteIdx == {1, 2, 3}
NmBufs == { << 7 >> }

NmStep(op, name, ok, fs) ==
    /\ files' = fs
    /\ last' = [outcome |-> "names", op |-> op, name |-> name, ok |-> ok, prev |-> files]
    /\ UNCHANGED << fdt, fd_path, mem, USER_BRK, stie, tf, sscratch, ticks, kstate, held, kfn >>

NmCreate ==
    \E name \in NmNames \ {"none"} :
        /\ kstate = "user"
        /\ NmStep("create", name, TRUE, create_file(files, name).files)

NmWrite ==
    \E idx \in NmWriteIdx, buf \in NmBufs :
        /\ kstate = "user"
        /\ LET w == write_file(files, idx, 0, buf)
           IN  NmStep("write", "", w.ok, w.files)

NmChmod ==
    \E name \in NmNames, mode \in NmModes :
        /\ kstate = "user"
        /\ LET c == chmod_file(files, name, mode)
           IN  NmStep("chmod", name, c.ok, c.files)

NmUnlink ==
    \E name \in NmNames :
        /\ kstate = "user"
        /\ LET u == unlink_file(files, name)
           IN  NmStep("unlink", name, u.ok, u.files)

NextNames ==
    \/ NmCreate
    \/ NmWrite
    \/ NmChmod
    \/ NmUnlink

SpecNames == Init /\ [][NextNames]_vars

\* the records of fs that are not called name, in their order
Others(fs, name) == SelectSeq(fs, LAMBDA r : r.name # name)

\* C35: after boot and any sequence of create_file, write_file, chmod_file
\* and unlink_file no two records of the writable layer have the same name;
\* unlink_file(name) removes exactly the one record with that name and keeps
\* name, data, mode and relative order of all other records (and changes
\* nothing when there is no such record).
C35_NamesUnique ==
    /\ \A i, j \in 1..Len(files) : files[i].name = files[j].name => i = j
    /\ (last.outcome = "names" /\ last.op = "unlink") =>
           /\ files = Others(last.prev, last.name)
           /\ last.ok <=> \E i \in 1..Len(last.prev) : last.prev[i].name = last.name
           /\ last.ok => Len(files) = Len(last.prev) - 1
           /\ ~last.ok => files = last.prev

\* a record in the middle of a list of four was unlinked
C35_Witness ==
    /\ last.outcome = "names" /\ last.op = "unlink" /\ last.ok
    /\ Len(last.prev) = 4
    /\ last.prev[2].name = last.name
    /\ Len(files) = 3
    /\ files[3].name \in {"a", "b"}

(***************************************************************************)
(* The directory listing, byte by byte.  A byte of the buffer is 0 (the    *)
(* NUL), [name, k] (byte k of a name) or -1 (not written).  SpecList lists *)
(* the writable layer into buffers of every length up to MaxListLen while  *)
(* files are created and unlinked.                                         *)
(***************************************************************************)
MaxListLen == 24

\* name.as_bytes()
NameBytes(name) == [k \in 1..Len(name) |-> [name |-> name, k |-> k]]

\* buf[offset .. offset + Len(bytes)].copy_from_slice(bytes), offset 0-based
CopyFromSlice(buf, offset, bytes) ==
    [p \in 1..Len(buf) |->
        IF p > offset /\ p <= offset + Len(bytes) THEN bytes[p - offset] ELSE buf[p]]

RECURSIVE ListWriteTight(_, _, _, _, _)
\* a faulty variant of ListWrite that wants one byte more than a name and
\* its NUL take
ListWriteTight(fs, i, buf, count, offset) ==
    IF i > Len(fs) \/ offset + Len(fs[i].name) + 1 >= Len(buf)
    THEN [count |-> count, buf |-> buf]
    ELSE ListWriteTight(fs, i + 1,
                        CopyFromSlice(CopyFromSlice(buf, offset, NameBytes(fs[i].name)),
                                      offset + Len(fs[i].name), << 0 >>),
                        count + 1, offset + Len(fs[i].name) + 1)

RECURSIVE ListWrite(_, _, _, _, _)
\* fs.rs list_writable_files(buf), the loop from record i on: the count it
\* returns and the buffer as it leaves it
ListWrite(fs, i, buf, count, offset) ==
    IF i > Len(fs) \/ offset + Len(fs[i].name) + 1 > Len(buf)
    THEN [count |-> count, buf |-> buf]
    ELSE ListWrite(fs, i + 1,
                   CopyFromSlice(CopyFromSlice(buf, offset, NameBytes(fs[i].name)),
                                 offset + Len(fs[i].name), << 0 >>),
                   count + 1, offset + Len(fs[i].name) + 1)

ListFiles ==
    \E buflen \in 0..MaxListLen :
        /\ kstate = "user"
        /\ LET r == ListWrite(files, 1, Repeat(-1, buflen), 0, 0)
           IN  last' = [outcome |-> "list", buflen |-> buflen, count |-> r.count,
                        buf |-> r.buf, prev |-> files]
        /\ UNCHANGED << files, fdt, fd_path, mem, USER_BRK, stie, tf, sscratch, ticks,
                        kstate, held, kfn >>

NextList ==
    \/ NmCreate
    \/ NmUnlink
    \/ ListFiles

SpecList == Init /\ [][NextList]_vars

RECURSIVE NamesTotal(_, _)
\* the bytes the first k names take, each with its NUL
NamesTotal(fs, k) == IF k = 0 THEN 0 ELSE NamesTotal(fs, k - 1) + Len(fs[k].name) + 1

\* C36: list_writable_files(buf) writes the names in list order, each
\* followed by one NUL, for the longest prefix of the list whose total of
\* (name length + 1) fits in buf; it returns the number of names written,
\* writes nothing past the last NUL and never a part of a name.
C36_ListingIsLongestPrefix ==
    last.outcome = "list" =>
        LET n == last.count IN
        /\ n \in 0..Len(files)
        /\ NamesTotal(files, n) <= last.buflen
        /\ n < Len(files) => NamesTotal(files, n + 1) > last.buflen
        /\ Len(last.buf) = last.buflen
        /\ \A i \in 1..n :
               /\ \A k \in 1..Len(files[i].name) :
                      last.buf[NamesTotal(files, i - 1) + k] = [name |-> files[i].name, k |-> k]
               /\ last.buf[NamesTotal(files, i)] = 0
        /\ \A p \in (NamesTotal(files, n) + 1)..last.buflen : last.buf[p] = -1
        /\ n = list_writable_files(files, last.buflen).count
        /\ NamesTotal(files, n) = list_writable_files(files, last.buflen).offset

\* the buffer took one name and had room left that the next name and its
\* NUL did not fit in
C36_Witness ==
    /\ last.outcome = "list"
    /\ last.count = 1
    /\ Len(files) >= 2
    /\ last.buflen > NamesTotal(files, 1)
    /\ last.buflen < NamesTotal(files, 2)
    /\ last.buf[last.buflen] = -1

(***************************************************************************)
(* Who may write.  SpecPerm opens and creates files, writes through the    *)
(* descriptors 3 and 4 and closes them.  last keeps, for a write, the      *)
(* offset and the list of files before it, and in origin the syscall that  *)
(* returned each descriptor ("" when it is closed).                        *)
(***************************************************************************)
PmFds == {3, 4}
PmChunk == << 11, 12, 13, 14, 15, 16, 17, 18, 19, 20 >>
MaxPmOffset == 8

Origin == IF last.outcome = "boot" THEN [fd \in PmFds |-> ""] ELSE last.origin

PmStep(f, r, bytes, origin) ==
    /\ r.outcome = "ret"
    /\ files' = r.k.files
    /\ fdt' = r.k.fdt
    /\ fd_path' = r.k.fd_path
    /\ LET x == trap_exit(r.tf, trap_entry(tf, sscratch).ksp) IN
       tf' = x.regs /\ sscratch' = x.sscratch
    /\ last' = [nr |-> f.a7, sepc |-> f.sepc, a0 |-> f.a0, a1 |-> f.a1, a2 |-> f.a2,
                outcome |-> r.outcome, ret |-> r.tf.a0, bytes |-> bytes,
                off0 |-> IF f.a0 \in PmFds THEN fdt[f.a0].offset ELSE 0,
                prev |-> files, origin |-> origin]
    /\ UNCHANGED << mem, USER_BRK, stie, ticks, kstate, held, kfn >>

\* origin after a syscall that returned ret as a new descriptor
Opened(ret, by) == [fd \in PmFds |-> IF fd = ret THEN by ELSE Origin[fd]]

PmOpen ==
    \E path \in {"etc/motd", "a"} :
        /\ kstate = "user"
        /\ Cardinality(InUse(fdt)) < Cardinality(PmFds)
        /\ LET f == Frame(SHELL_ENTRY, NR_OPEN, STR, 0, 0)
               r == sys_open(K, f, path)
           IN  PmStep(f, r, << >>, Opened(r.tf.a0, "open"))

PmCreat ==
    \E path \in {"a"} :
        /\ kstate = "user"
        /\ Cardinality(InUse(fdt)) < Cardinality(PmFds)
        /\ LET f == Frame(SHELL_ENTRY, NR_CREAT, STR, 0, 0)
               r == sys_creat(K, f, path)
           IN  PmStep(f, r, << >>, Opened(r.tf.a0, "creat"))

PmWrite ==
    \E fd \in PmFds, buf \in RdBufs, len \in {Len(PmChunk)} :
        /\ kstate = "user"
        /\ fd \in InUse(fdt)
        /\ fdt[fd].offset <= MaxPmOffset
        /\ LET f == Frame(SHELL_ENTRY, NR_WRITE_FD, fd, buf, len)
           IN  PmStep(f, sys_write_fd(K, f, SubSeq(PmChunk, 1, len)),
                      SubSeq(PmChunk, 1, len), Origin)

PmClose ==
    \E fd \in PmFds :
        /\ kstate = "user"
        /\ fd \in InUse(fdt)
        /\ LET f == Frame(SHELL_ENTRY, NR_CLOSE, fd, 0, 0)
           IN  PmStep(f, sys_close(K, f), << >>, Opened(fd, ""))

NextPerm ==
    \/ PmOpen
    \/ PmCreat
    \/ PmWrite
    \/ PmClose

SpecPerm == Init /\ [][NextPerm]_vars

\* the last trap was a write through descriptor fd
WriteDone(fd) == last.outcome = "ret" /\ last.nr = NR_WRITE_FD /\ last.a0 = fd

\* C37: a descriptor returned by open is never writable, also when it refers
\* to a file of the writable layer: a write through it (buf not null,
\* len > 0) returns usize::MAX and leaves the file's data and the
\* descriptor's offset unchanged.  Only descriptors returned by creat accept
\* writes, and a successful write through one stores the bytes at the
\* descriptor's offset and advances the offset by the count it returns.
C37_OnlyCreatWrites ==
    \A fd \in PmFds :
        WriteDone(fd) =>
            /\ last.origin[fd] = "open" =>
                   /\ last.ret = USIZE_MAX
                   /\ files = last.prev
                   /\ fdt[fd].offset = last.off0
                   /\ ~fdt[fd].writable
            /\ last.ret # USIZE_MAX =>
                   /\ last.origin[fd] = "creat"
                   /\ last.ret = Min(last.a2, PageEnd(last.a1) - last.a1)
                   /\ fdt[fd].offset = last.off0 + last.ret
                   /\ LET data == files[fdt[fd].file_type.idx + 1].data IN
                      SubSeq(data, last.off0 + 1, last.off0 + last.ret)
                          = SubSeq(last.bytes, 1, last.ret)
            /\ last.origin[fd] = "creat" => last.ret # USIZE_MAX

\* a write through a descriptor that open returned for the file "a" of the
\* writable layer was refused, while the file's creat descriptor is open
C37_Witness ==
    /\ WriteDone(4)
    /\ last.origin = [fd \in PmFds |-> IF fd = 3 THEN "creat" ELSE "open"]
    /\ fd_path[4] = "a"
    /\ last.ret = USIZE_MAX
    /\ Len(files[fdt[3].file_type.idx + 1].data) > 0

(***************************************************************************)
(* creat without a free descriptor.  SpecCreat opens descriptors until the *)
(* table is full and calls creat with a path at STR or with a null path.   *)
(***************************************************************************)
\* creat is called with no descriptor open, with one free and with none free
CrCounts == {0, MAX_FD - 4, MAX_FD - 3}

CrOpen ==
    \E path \in {"etc/motd"} :
        /\ kstate = "user"
        /\ LET f == Frame(SHELL_ENTRY, NR_OPEN, STR, 0, 0)
           IN  PmStep(f, sys_open(K, f, path), << >>, Origin)

CrCreat ==
    \E path \in {"a", "etc/motd"}, ptr \in {STR, 0} :
        /\ kstate = "user"
        /\ Cardinality(InUse(fdt)) \in CrCounts
        /\ LET f == Frame(SHELL_ENTRY, NR_CREAT, ptr, 0, 0)
           IN  PmStep(f, sys_creat(K, f, path), << >>, Origin)

CrClose ==
    \E fd \in {3} :
        /\ kstate = "user"
        /\ LET f == Frame(SHELL_ENTRY, NR_CLOSE, fd, 0, 0)
           IN  PmStep(f, sys_close(K, f), << >>, Origin)

NextCreat ==
    \/ CrOpen
    \/ CrCreat
    \/ CrClose

SpecCreat == Init /\ [][NextCreat]_vars

\* C38: when creat returns usize::MAX (unreadable path or no free
\* descriptor) the filesystem is unchanged: no file was created, truncated
\* or had its mode reset.
C38_FailedCreatChangesNothing ==
    (last.outcome = "ret" /\ last.nr = NR_CREAT /\ last.ret = USIZE_MAX) =>
        files = last.prev

\* the memory load_program hands to the loader in SpecLoad
LoadMem == clear_user_mappings(reset_user_pages(mem))

\* C39: when load_user_elf returns an error of any kind (also PhOutOfBounds
\* raised by a later segment and SegmentOverflow raised while the stack is
\* built) it has allocated no user frame, consumed no page-table page and
\* installed no mapping: the page tables and both pool cursors are as they
\* were at the call.
C39_FailedLoadChangesNothing ==
    (last.outcome = "loaded" /\ last.err # "Ok") =>
        /\ last.m.next = LoadMem.next
        /\ last.m.cur = LoadMem.cur
        /\ last.m.pt = LoadMem.pt

\* the loader stored something at the byte va of the load l: a write into
\* the frame va is mapped to, or a store into the stack
Written(l, va) ==
    \/ \E j \in 1..Len(l.frames) :
          /\ l.frames[j].pn = FrameOf(l.m, va \div PAGE_SIZE)
          /\ l.frames[j].off <= va % PAGE_SIZE
          /\ va % PAGE_SIZE < l.frames[j].off + l.frames[j].len
    \/ LastStore(l, va) # 0

\* C40: a newly started program cannot observe data of the program that
\* ran before it: every byte of every user page mapped for the new program
\* (segment pages with the bytes before p_vaddr and after the segment end,
\* and the stack pages) is a byte the loader wrote for the new image or
\* zero, never what the frame held before.
C40_NoStaleBytes ==
    Loaded =>
        \A pg \in StackPages \cup UNION { SegPages(ph) : ph \in LoadSegs(last) } :
            \A off \in 0..(PAGE_SIZE - 1) :
                \/ UserByte(last, pg * PAGE_SIZE + off) = 0
                \/ Written(last, pg * PAGE_SIZE + off)

====
